---- MODULE Spec2Model ----
(***************************************************************************)
(* Model of the Telegram moderation bot of src/bot.py: the applications    *)
(* table, the text filter, the conversation (ConversationHandler states),  *)
(* the admin decision handler, the publish routine and the periodic sweep. *)
(*                                                                         *)
(* Conventions.                                                            *)
(*  - A text is a sequence of runs [c |-> char, n |-> count].  Only the    *)
(*    neutral letter "x", which occurs in no bad word and in no contact    *)
(*    trigger, is ever repeated (n > 1); every other character is its own  *)
(*    element.  len(t) is the number of characters.                        *)
(*  - Cyrillic letters are written with one Latin letter each:             *)
(*    h=х u=у j=й p=п i=и z=з d=д a=а b=б l=л q=я t=т y=ь e=е s=с k=к      *)
(*    v=в o=о n=н w=ш f=ф m=м r=р; upper case is the upper-case letter.    *)
(*  - Time is counted in ticks; a day is TicksPerDay ticks.  A DATE column *)
(*    holds the number of the day it denotes, a TIMESTAMP the tick.        *)
(*  - SQL NULL is NULL (numbers) or NONE (strings).                        *)
(***************************************************************************)
EXTENDS Integers, Sequences, FiniteSets, TLC

VARIABLES
    apps,        \* the rows of table applications (a set of records)
    nextId,      \* AUTOINCREMENT: the id the next INSERT gets
    now,         \* the clock, in ticks
    conv,        \* per user: the ConversationHandler state
    user_data,   \* per user: context.user_data
    admin,       \* handle_admin_decision in flight (handlers run one at a time)
    sweep,       \* check_pending_applications in flight (a scheduler job)
    channel,     \* the ids delivered to the channel once, and more than once
    out,         \* what the latest step sent: to the channel, a submitter, the admin,
                 \* what it answered to the user it served, and the error or
                 \* job line it wrote to the log
    update,      \* the update whose handling the latest step began (NoUpdate
                 \* when it began none)
    boot         \* the configuration read from the environment and how far the
                 \* process has come: main, startup, serving or exited

vars == <<apps, nextId, now, conv, user_data, admin, sweep, channel, out, update, boot>>

\* ---------------------------------------------------------------- bounds
MaxApps == 1          \* rows ever inserted in the moderation runs
MaxSweepApps == 2     \* rows ever inserted in the sweep runs
MaxConvApps == 1      \* rows ever inserted in the conversation runs
MaxRateApps == 6      \* rows ever inserted in the rate-limit runs
MaxDay == 1           \* days the clock may advance past StartDay
MaxTick == 2          \* ticks the clock may advance within a day
MaxCleanupApps == 2   \* rows ever inserted in the cleanup runs
MaxMonth == 2         \* times the clock may jump by the cleanup age
MaxTokens == 3        \* pieces a text handed to censor_text is made of
MaxPhotoApps == 1      \* rows ever inserted in the photo runs
MaxQueue == 3          \* updates waiting on the update queue in the webhook runs

\* ------------------------------------------------------------- constants
NULL == -1
NONE == "NULL"
TicksPerHour == 2
HoursPerDay == 24
TicksPerDay == TicksPerHour * HoursPerDay
StartDay == 304       \* 1 November, counted from 1 January = day 0

MAX_NAME_LENGTH == 50
MAX_TEXT_LENGTH == 4000
MAX_CONGRAT_TEXT_LENGTH == 500
MAX_ANNOUNCE_NEWS_TEXT_LENGTH == 300
MIN_TEXT_LENGTH == 10
RATE_LIMIT == 5
CLEANUP_DAYS == 30
CONTACT_MIN == 7

ADMIN_CHAT_ID == 100
Users == {1, 2}
Senders == Users \cup {ADMIN_CHAT_ID}
\* the users who submit in the moderation runs
Submitters == {1}

today == now \div TicksPerDay


\* ------------------------------------------------------------------ text
Ch(c) == [c |-> c, n |-> 1]
Run(c, k) == [c |-> c, n |-> k]
Str(s) == [i \in 1..Len(s) |-> Ch(s[i])]

RECURSIVE len(_)
len(t) == IF t = <<>> THEN 0 ELSE Head(t).n + len(Tail(t))

UpperCase == [H |-> "h", U |-> "u", J |-> "j", S |-> "s", K |-> "k",
              A |-> "a", T |-> "t", E |-> "e", L |-> "l"]
\* re.IGNORECASE: characters are compared after case folding
Lower(c) == IF c \in DOMAIN UpperCase THEN UpperCase[c] ELSE c

Letters == {"x", "h", "u", "j", "p", "i", "z", "d", "a", "b", "l", "q", "t",
            "y", "e", "s", "k", "v", "o", "n", "w", "f", "m", "r"}
IsLetter(c) == Lower(c) \in Letters
IsSpace(c) == c \in {" ", "\n"}
\* [:;\s]
IsSep(c) == c \in {":", ";"} \/ IsSpace(c)
\* [\+\d\(\).\s-]
IsContactChar(c) == c \in {"+", "0", "1", "2", "3", "4", "5", "6", "7", "8", "9",
                            "(", ")", ".", "-"}
                    \/ IsSpace(c)

\* str.strip(): leading and trailing whitespace removed
RECURSIVE lstrip(_)
lstrip(t) == IF t # <<>> /\ IsSpace(Head(t).c) THEN lstrip(Tail(t)) ELSE t
RECURSIVE rstrip(_)
rstrip(t) ==
    IF t # <<>> /\ IsSpace(t[Len(t)].c) THEN rstrip(SubSeq(t, 1, Len(t) - 1)) ELSE t
strip(t) == rstrip(lstrip(t))

\* the pattern w (a sequence of characters) matches t at element i
MatchAt(t, i, w) ==
    /\ i >= 1
    /\ i + Len(w) - 1 <= Len(t)
    /\ \A k \in 1..Len(w) : t[i + k - 1].n = 1 /\ Lower(t[i + k - 1].c) = Lower(w[k])

re_search(w, t) == \E i \in 1..Len(t) : MatchAt(t, i, w)

\* re.sub(re.escape(w), rep, t, flags=re.IGNORECASE): leftmost, non-overlapping
RECURSIVE re_sub_from(_, _, _, _)
re_sub_from(w, rep, t, i) ==
    IF i > Len(t) THEN <<>>
    ELSE IF MatchAt(t, i, w) THEN rep \o re_sub_from(w, rep, t, i + Len(w))
    ELSE <<t[i]>> \o re_sub_from(w, rep, t, i + 1)
\* re.sub with count=1: only the leftmost occurrence is replaced
RECURSIVE re_sub_first_from(_, _, _, _)
re_sub_first_from(w, rep, t, i) ==
    IF i > Len(t) THEN <<>>
    ELSE IF MatchAt(t, i, w) THEN rep \o SubSeq(t, i + Len(w), Len(t))
    ELSE <<t[i]>> \o re_sub_first_from(w, rep, t, i + 1)
re_sub_first(w, rep, t) == re_sub_first_from(w, rep, t, 1)
re_sub(w, rep, t) == re_sub_from(w, rep, t, 1)

DEFAULT_BAD_WORDS ==
    << <<"h", "u", "j">>, <<"p", "i", "z", "d", "a">>, <<"b", "l", "q", "t", "y">>,
       <<"b", "l", "q", "d", "y">>, <<"e", "b", "a", "t", "y">>, <<"s", "u", "k", "a">> >>
\* load_bad_words with no bad_words.txt: the defaults
load_bad_words == DEFAULT_BAD_WORDS

STARS == Str(<<"*", "*", "*">>)
\* 'Контактная информация скрыта (пишите в ЛС)', one element
CONTACT_HIDDEN == <<Ch("<contact hidden>")>>

\* the alternatives of the contact pattern, in the order the regex tries them
\* (тел\.? is тел. before тел)
CONTACT_TRIGGERS ==
    << <<"z", "v", "o", "n", "i", "t", "e">>, <<"p", "i", "w", "i", "t", "e">>,
       <<"t", "e", "l", "e", "f", "o", "n">>, <<"n", "o", "m", "e", "r">>,
       <<"t", "e", "l", ".">>, <<"t", "e", "l">>, <<"t", ".">> >>

\* how many elements from i on satisfy the class P(c) (a maximal run)
RECURSIVE SepRun(_, _)
SepRun(t, i) ==
    IF i <= Len(t) /\ t[i].n = 1 /\ IsSep(t[i].c) THEN 1 + SepRun(t, i + 1) ELSE 0
RECURSIVE ContactRun(_, _)
ContactRun(t, i) ==
    IF i <= Len(t) /\ t[i].n = 1 /\ IsContactChar(t[i].c)
    THEN 1 + ContactRun(t, i + 1) ELSE 0

\* [:;\s]*([\+\d\(\).\s-]{7,}) from element e on: the separators k that leave a
\* long enough contact run; the regex is greedy, so it settles on the largest
ContactSplits(t, e) == {k \in 0..SepRun(t, e) : ContactRun(t, e + k) >= CONTACT_MIN}
ContactTailEnd(t, e) ==
    LET k == CHOOSE k \in ContactSplits(t, e) : \A j \in ContactSplits(t, e) : j <= k
    IN  e + k + ContactRun(t, e + k)

\* the alternatives that give a whole match at element i
ContactAlts(t, i) ==
    {a \in 1..Len(CONTACT_TRIGGERS) :
        /\ MatchAt(t, i, CONTACT_TRIGGERS[a])
        /\ ContactSplits(t, i + Len(CONTACT_TRIGGERS[a])) # {}}
\* the element after the match at i
ContactEnd(t, i) ==
    LET a == CHOOSE a \in ContactAlts(t, i) : \A b \in ContactAlts(t, i) : a <= b
    IN  ContactTailEnd(t, i + Len(CONTACT_TRIGGERS[a]))

RECURSIVE hide_contacts_from(_, _)
hide_contacts_from(t, i) ==
    IF i > Len(t) THEN <<>>
    ELSE IF ContactAlts(t, i) # {}
         THEN CONTACT_HIDDEN \o hide_contacts_from(t, ContactEnd(t, i))
         ELSE <<t[i]>> \o hide_contacts_from(t, i + 1)
hide_contacts(t) == hide_contacts_from(t, 1)

\* the loop of censor_text over the bad words: <<censored, has_bad>>
RECURSIVE censor_words(_, _, _, _)
censor_words(words, k, censored, has_bad) ==
    IF k > Len(words) THEN <<censored, has_bad>>
    ELSE IF re_search(words[k], censored)
         THEN censor_words(words, k + 1, re_sub(words[k], STARS, censored), TRUE)
         ELSE censor_words(words, k + 1, censored, has_bad)

\* censor_text reporting a bad word for every text
censor_text_flagging(text) ==
    LET r == censor_words(load_bad_words, 1, text, FALSE)
    IN  <<hide_contacts(r[1]), TRUE>>

censor_text(text) ==
    LET r == censor_words(load_bad_words, 1, text, FALSE)
    IN  <<hide_contacts(r[1]), r[2]>>

\* validate_name without the test of the length
validate_name_any_length(name) ==
    /\ name # <<>>
    /\ \A i \in 1..Len(name) :
           IsLetter(name[i].c) \/ IsSpace(name[i].c) \/ name[i].c = "-"

validate_name(name) ==
    /\ ~(len(name) < 2 \/ len(name) > MAX_NAME_LENGTH)
    /\ name # <<>>
    /\ \A i \in 1..Len(name) :
           IsLetter(name[i].c) \/ IsSpace(name[i].c) \/ name[i].c = "-"

\* -------------------------------------------------------------- database
\* A row of applications.  limit_checked and raw are history fields, not
\* columns: whether the COUNT query of can_submit_request succeeded before the
\* INSERT, and user_data["text"] (the text made from what the user sent last)
\* at the INSERT.
NoRow == [id |-> NULL]
Found(r) == r.id # NULL

Ids == {r.id : r \in apps}
RowOf(A, app_id) == CHOOSE r \in A : r.id = app_id

RECURSIVE ById(_)
\* the rows of S as a sequence in rowid order
ById(S) ==
    IF S = {} THEN <<>>
    ELSE LET r == CHOOSE r \in S : \A q \in S : r.id <= q.id
         IN  <<r>> \o ById(S \ {r})

\* INSERT INTO applications ...: status and created_at take their defaults
InsertRow(app_data, checked) ==
    [id |-> nextId,
     user_id |-> app_data.user_id,
     type |-> app_data.type,
     subtype |-> app_data.subtype,
     congrat_type |-> app_data.congrat_type,
     publish_date |-> app_data.publish_date,
     text |-> app_data.text,
     photo_id |-> app_data.photo_id,
     status |-> "pending",
     created_at |-> now,
     published_at |-> NULL,
     limit_checked |-> checked,
     raw |-> app_data.raw]

get_application_details(app_id, dbOk) ==
    IF dbOk /\ app_id \in Ids THEN RowOf(apps, app_id) ELSE NoRow

\* a SELECT that looks at the status alone
get_approved_any(dbOk) ==
    IF dbOk THEN ById({r \in apps : r.status = "approved"}) ELSE <<>>

get_approved_unpublished_applications(dbOk) ==
    IF dbOk
    THEN ById({r \in apps : r.status = "approved" /\ r.published_at = NULL})
    ELSE <<>>

update_application_status(A, app_id, status, dbOk) ==
    IF dbOk
    THEN {IF r.id = app_id THEN [r EXCEPT !.status = status] ELSE r : r \in A}
    ELSE A

mark_application_as_published(A, app_id, dbOk) ==
    IF dbOk
    THEN {IF r.id = app_id
          THEN [r EXCEPT !.published_at = now, !.status = "published"]
          ELSE r : r \in A}
    ELSE A

\* database.py: the same table without the status 'published'
get_approved_unpublished(A) ==
    ById({r \in A : r.status = "approved" /\ r.published_at = NULL})
mark_as_published(A, app_id) ==
    {IF r.id = app_id THEN [r EXCEPT !.published_at = now] ELSE r : r \in A}

\* a DELETE that looks at the age alone
cleanup_any_status(A, days, dbOk) ==
    IF dbOk THEN {r \in A : ~(r.created_at < now - days * TicksPerDay)} ELSE A
cleanup_old_applications(A, days, dbOk) ==
    IF dbOk
    THEN {r \in A : ~(/\ r.created_at < now - days * TicksPerDay
                      /\ r.status \in {"published", "rejected"})}
    ELSE A

can_submit_request(user_id, dbOk) ==
    IF dbOk
    THEN Cardinality({r \in apps : r.user_id = user_id
                                   /\ r.created_at > now - TicksPerHour}) < RATE_LIMIT
    ELSE TRUE

\* ------------------------------------------------------- configuration
\* TELEGRAM_TOKEN, CHANNEL_ID and ADMIN_CHAT_ID are set or missing
Configs == [token : BOOLEAN, channel : BOOLEAN, admin_chat : BOOLEAN]
Booting(cfg) ==
    [token |-> cfg.token, channel |-> cfg.channel, admin_chat |-> cfg.admin_chat,
     pc |-> "main"]
\* the bot is serving with all three set
Configured ==
    [token |-> TRUE, channel |-> TRUE, admin_chat |-> TRUE, pc |-> "serving"]

\* "Токен бота" and "ID канала"; the database file exists after init_db and the
\* bad-words file is not required
check_environment == boot.token /\ boot.channel

\* ------------------------------------------------- completing a request
END == "END"
\* context.user_data after clear(): no key set ('' and None are both falsy)
NoData ==
    [type |-> NONE, subtype |-> NONE, from_name |-> <<>>, to_name |-> <<>>,
     congrat_type |-> NONE, text |-> <<>>, censored_text |-> <<>>,
     publish_date |-> NULL, photo_id |-> NONE]

NoNote == [id |-> NULL]
NoMsg == [id |-> NULL]
NoSend == [id |-> NULL]
\* a step that sends nothing
NoOut ==
    [channel |-> NoSend, note |-> NoNote, admin |-> NoMsg, reply |-> NONE,
     log |-> NONE]
\* an update: a text message, a photo, a command or a pressed button of user
NoUpdate == [user |-> NULL]

ADMIN_PREVIEW == 200
RECURSIVE take(_, _)
\* t[:k]
take(t, k) ==
    IF k <= 0 \/ t = <<>> THEN <<>>
    ELSE IF Head(t).n <= k THEN <<Head(t)>> \o take(Tail(t), k - Head(t).n)
    ELSE <<Run(Head(t).c, k)>>

\* notify_admin_new_application: nothing without ADMIN_CHAT_ID; the message
\* carries app_details['text'][:200]
notify_admin_new_application(app_id, app_data) ==
    IF boot.admin_chat
    THEN [kind |-> "new", id |-> app_id, text |-> take(app_data.text, ADMIN_PREVIEW)]
    ELSE NoMsg

final_text_of(ud, text) ==
    IF text # <<>> THEN text
    ELSE IF ud.censored_text # <<>> THEN ud.censored_text
    ELSE ud.text

\* a complete_request whose INSERT fails and which leaves user_data as it is
complete_request_keeping(u, ud, text, countOk, insertOk) ==
    /\ user_data' = [user_data EXCEPT ![u] = ud]
    /\ conv' = [conv EXCEPT ![u] = END]
    /\ out' = [NoOut EXCEPT !.reply = "error_save", !.log = "log_insert_error"]
    /\ UNCHANGED <<apps, nextId>>

\* complete_request for user u whose user_data is ud; text is the optional
\* argument (<<>> when not given).  countOk and insertOk say whether the COUNT
\* query and the INSERT run without sqlite3.Error.
complete_request(u, ud, text, countOk, insertOk) ==
    LET final_text == final_text_of(ud, text)
        app_data == [user_id |-> u, type |-> ud.type, text |-> final_text,
                     photo_id |-> ud.photo_id, congrat_type |-> ud.congrat_type,
                     publish_date |-> ud.publish_date, subtype |-> ud.subtype,
                     raw |-> ud.text]
    IN  /\ user_data' = [user_data EXCEPT ![u] = NoData]
        /\ conv' = [conv EXCEPT ![u] = END]
        /\ IF final_text = <<>> \/ ud.type = NONE
           THEN /\ out' = [NoOut EXCEPT !.reply = "error_no_data"]
                /\ UNCHANGED <<apps, nextId>>
           ELSE IF ~can_submit_request(u, countOk)
           THEN /\ out' = [NoOut EXCEPT !.reply = "error_too_many"]
                /\ UNCHANGED <<apps, nextId>>
           ELSE IF ~insertOk
           THEN /\ out' = [NoOut EXCEPT !.reply = "error_save",
                                        !.log = "log_insert_error"]
                /\ UNCHANGED <<apps, nextId>>
           ELSE /\ apps' = apps \cup {InsertRow(app_data, countOk)}
                /\ nextId' = nextId + 1
                /\ out' = [NoOut EXCEPT
                              !.admin = notify_admin_new_application(nextId, app_data),
                              !.reply = "created"]

\* ---------------------------------------------------------- conversation
\* ANNOUNCE_SUBTYPES, HOLIDAYS (the day of the year, 1 January being day 0) and
\* HOLIDAY_TEMPLATES (each template one element)
REQUEST_TYPES == {"congrat", "announcement", "news"}
ANNOUNCE_SUBTYPES == {"ride", "offer", "lost"}
HOLIDAYS ==
    [h \in {"Novyj god", "23 Fevralq", "8 Marta", "9 Maq", "12 Iqnq", "4 Noqbrq"} |->
        CASE h = "Novyj god" -> 0
          [] h = "23 Fevralq" -> 53
          [] h = "8 Marta" -> 66
          [] h = "9 Maq" -> 128
          [] h = "12 Iqnq" -> 162
          [] h = "4 Noqbrq" -> 307]
HOLIDAY_TEMPLATES == [h \in DOMAIN HOLIDAYS |-> <<Ch("<template>")>>]
HOLIDAY_WINDOW == 5

\* days are counted from 1 January of the year the clock starts in; a year has
\* 365 days
DaysPerYear == 365
\* 1 January of datetime.now().year
current_year == (today \div DaysPerYear) * DaysPerYear

\* (holiday_date - 5 days) <= today <= (holiday_date + 5 days), the holiday
\* taken in the current year
is_holiday_active(holiday_date_str) ==
    LET holiday_date == current_year + holiday_date_str
    IN  /\ holiday_date - HOLIDAY_WINDOW <= today
        /\ today <= holiday_date + HOLIDAY_WINDOW

\* the button data the model sends; without_prefix is
\* query.data.replace(prefix, "") on each of them
Datas ==
    {"news", "congrat", "announcement", "subtype_ride", "subtype_boat",
     "holiday_4 Noqbrq", "holiday_12 Iqnq", "holiday_Pasha", "custom_congrat",
     "publish_today", "custom_date", "accept", "edit", "back_to_start",
     "back_to_holiday_choice", "back_to_custom_message", "bogus"}
without_prefix(data, prefix) ==
    CASE prefix = "subtype_" /\ data = "subtype_ride" -> "ride"
      [] prefix = "subtype_" /\ data = "subtype_boat" -> "boat"
      [] prefix = "holiday_" /\ data = "holiday_4 Noqbrq" -> "4 Noqbrq"
      [] prefix = "holiday_" /\ data = "holiday_12 Iqnq" -> "12 Iqnq"
      [] prefix = "holiday_" /\ data = "holiday_Pasha" -> "Pasha"
      [] prefix = "holiday_" /\ data = "holiday_Novyj god" -> "Novyj god"
      [] OTHER -> data

NL == Str(<<"\n", "\n">>)
\* f"🗞️ Новость от {username}\n\n{text}" and its siblings: the fixed words are
\* one element each
format_news(text) == <<Ch("<news from user>")>> \o NL \o text
format_announce(text) == <<Ch("<announcement from user>")>> \o NL \o text
format_congrat(from_name, to_name, text) ==
    from_name \o <<Ch("< greets >")>> \o to_name \o <<Ch("!")>> \o NL \o text
format_holiday(from_name, to_name, holiday) ==
    from_name \o <<Ch("< greets >")>> \o to_name \o <<Ch("< on >"), Ch(holiday), Ch("!")>>
        \o NL \o HOLIDAY_TEMPLATES[holiday]

\* a handler ends: user_data, the state it returns and the message it sent
Goto(u, ud, state, reply) ==
    /\ user_data' = [user_data EXCEPT ![u] = ud]
    /\ conv' = [conv EXCEPT ![u] = state]
    /\ out' = [NoOut EXCEPT !.reply = reply]
    /\ UNCHANGED <<apps, nextId>>

start_command(u) == Goto(u, NoData, "TYPE_SELECTION", "choose_type")

handle_type_selection(u, ud, data) ==
    LET ud2 == [ud EXCEPT !.type = data]
    IN  CASE data = "news" -> Goto(u, ud2, "ANNOUNCE_TEXT_INPUT", "ask_text")
          [] data = "congrat" -> Goto(u, ud2, "SENDER_NAME_INPUT", "ask_sender")
          [] data = "announcement" ->
                 Goto(u, ud2, "ANNOUNCE_SUBTYPE_SELECTION", "choose_subtype")
          [] OTHER -> Goto(u, ud2, END, "error_unknown_type")

\* text is update.message.text of a text message
get_sender_name(u, ud, text) ==
    IF strip(text) = <<>>
    THEN Goto(u, ud, "SENDER_NAME_INPUT", "error_empty")
    ELSE IF ~validate_name(strip(text))
    THEN Goto(u, ud, "SENDER_NAME_INPUT", "error_name")
    ELSE Goto(u, [ud EXCEPT !.from_name = strip(text)],
              "RECIPIENT_NAME_INPUT", "ask_recipient")

get_recipient_name(u, ud, text) ==
    IF strip(text) = <<>>
    THEN Goto(u, ud, "RECIPIENT_NAME_INPUT", "error_empty")
    ELSE IF ~validate_name(strip(text))
    THEN Goto(u, ud, "RECIPIENT_NAME_INPUT", "error_name")
    ELSE Goto(u, [ud EXCEPT !.to_name = strip(text)],
              "CONGRAT_HOLIDAY_CHOICE", "choose_holiday")

\* user_data.clear(), then start_command
back_to_start(u) == start_command(u)

\* a /cancel that saves what was entered so far instead of dropping it
cancel_command_saving(u) == complete_request(u, user_data[u], <<>>, TRUE, TRUE)
\* the notice, user_data.clear(), then back_to_start
cancel_command(u) == back_to_start(u)

\* the censor preview: user_data["censored_text"] is set and the user is asked
\* to accept or edit
censor_preview(u, ud, censored) ==
    Goto(u, [ud EXCEPT !.censored_text = censored], "WAIT_CENSOR_APPROVAL",
         "censor_preview")

process_custom_congrat_message(u, ud) ==
    Goto(u, [ud EXCEPT !.congrat_type = "custom"], "CUSTOM_CONGRAT_MESSAGE_INPUT",
         "ask_congrat_text")

handle_congrat_holiday_choice(u, ud, data, countOk, insertOk) ==
    LET holiday == without_prefix(data, "holiday_")
        formatted_text == format_holiday(ud.from_name, ud.to_name, holiday)
        ud2 == [ud EXCEPT !.congrat_type = holiday, !.text = formatted_text]
        c == censor_text(formatted_text)
    IN  CASE data = "publish_today" ->
                 complete_request(u, [ud EXCEPT !.publish_date = today], <<>>,
                                  countOk, insertOk)
          [] data = "custom_date" -> Goto(u, ud, "CONGRAT_DATE_INPUT", "ask_date")
          [] data = "custom_congrat" -> process_custom_congrat_message(u, ud)
          [] OTHER ->
                 IF holiday \notin DOMAIN HOLIDAYS
                 THEN Goto(u, ud, END, "error_unknown_holiday")
                 ELSE IF ~is_holiday_active(HOLIDAYS[holiday])
                 THEN Goto(u, ud, "CONGRAT_HOLIDAY_CHOICE", "error_holiday_inactive")
                 ELSE IF c[2]
                 THEN censor_preview(u, ud2, c[1])
                 ELSE Goto(u, ud2, "CONGRAT_DATE_INPUT", "choose_date")

\* text is update.message.text, <<>> when the message has none (a photo)
process_congrat_text(u, ud, text) ==
    LET stripped == strip(text)
        formatted_text == format_congrat(ud.from_name, ud.to_name, stripped)
        ud2 == [ud EXCEPT !.text = formatted_text]
        c == censor_text(formatted_text)
    IN  IF stripped = <<>>
        THEN Goto(u, ud, "CUSTOM_CONGRAT_MESSAGE_INPUT", "error_empty")
        ELSE IF len(stripped) > MAX_TEXT_LENGTH
        THEN Goto(u, ud, "CUSTOM_CONGRAT_MESSAGE_INPUT", "error_long")
        ELSE IF len(stripped) < MIN_TEXT_LENGTH
        THEN Goto(u, ud, "CUSTOM_CONGRAT_MESSAGE_INPUT", "error_short")
        ELSE IF c[2]
        THEN censor_preview(u, ud2, c[1])
        ELSE Goto(u, ud2, "CONGRAT_DATE_INPUT", "choose_date")

back_to_holiday_choice(u, ud) ==
    Goto(u, ud, "CONGRAT_HOLIDAY_CHOICE", "choose_holiday")

handle_announce_subtype_selection(u, ud, data) ==
    LET subtype_key == without_prefix(data, "subtype_")
    IN  IF subtype_key \notin ANNOUNCE_SUBTYPES
        THEN Goto(u, ud, END, "error_unknown_subtype")
        ELSE Goto(u, [ud EXCEPT !.subtype = subtype_key], "ANNOUNCE_TEXT_INPUT",
                  "ask_text")

process_announce_news_text(u, ud, text, countOk, insertOk) ==
    LET stripped == strip(text)
        formatted_text ==
            IF ud.type = "news" THEN format_news(stripped)
            ELSE IF ud.type = "announcement" THEN format_announce(stripped)
            ELSE stripped
        ud2 == [ud EXCEPT !.text = formatted_text]
        c == censor_text(formatted_text)
    IN  IF stripped = <<>>
        THEN Goto(u, ud, "ANNOUNCE_TEXT_INPUT", "error_empty")
        ELSE IF len(stripped) > MAX_TEXT_LENGTH
        THEN Goto(u, ud, "ANNOUNCE_TEXT_INPUT", "error_long")
        ELSE IF len(stripped) < MIN_TEXT_LENGTH
        THEN Goto(u, ud, "ANNOUNCE_TEXT_INPUT", "error_short")
        ELSE IF c[2]
        THEN censor_preview(u, ud2, c[1])
        ELSE complete_request(u, ud2, formatted_text, countOk, insertOk)

\* an accept that saves the text as the user typed it
handle_censor_choice_raw(u, ud, data, countOk, insertOk) ==
    IF data = "accept"
    THEN complete_request(u, [ud EXCEPT !.publish_date = today], ud.text,
                          countOk, insertOk)
    ELSE Goto(u, ud, "WAIT_CENSOR_APPROVAL", "error_choice")
handle_censor_choice(u, ud, data, countOk, insertOk) ==
    LET custom == ud.type = "congrat" /\ ud.congrat_type = "custom"
    IN  CASE data = "accept" ->
                 IF custom
                 THEN Goto(u, ud, "CONGRAT_DATE_INPUT", "choose_date")
                 ELSE complete_request(u, [ud EXCEPT !.publish_date = today], <<>>,
                                       countOk, insertOk)
          [] data = "edit" ->
                 IF custom
                 THEN Goto(u, ud, "CUSTOM_CONGRAT_MESSAGE_INPUT", "ask_congrat_text")
                 ELSE Goto(u, ud, "ANNOUNCE_TEXT_INPUT", "ask_text")
          [] OTHER -> Goto(u, ud, "WAIT_CENSOR_APPROVAL", "error_choice")

back_to_custom_message(u, ud) ==
    Goto(u, ud, "CUSTOM_CONGRAT_MESSAGE_INPUT", "ask_congrat_text")

\* What the user types for a date: the word "сегодня" in some case, a date with
\* '-' or '.' between day, month and year (fmt "dmy"), a date in another order,
\* or something else.  strptime(date_str, "%d-%m-%Y") raises ValueError unless
\* the text, with '.' replaced by '-', is day-month-year.
is_today_word(d) == d.fmt = "word"
strptime_ok(d) == d.fmt = "dmy"

\* a date handler that takes any well-formed date, past ones too
process_congrat_date_any_day(u, ud, upd, countOk, insertOk) ==
    IF upd.kind = "text" /\ strptime_ok(upd.data)
    THEN complete_request(u, [ud EXCEPT !.publish_date = upd.data.day], <<>>,
                          countOk, insertOk)
    ELSE Goto(u, ud, "CONGRAT_DATE_INPUT", "error_date_format")
process_congrat_date(u, ud, upd, countOk, insertOk) ==
    LET done(day) == complete_request(u, [ud EXCEPT !.publish_date = day], <<>>,
                                      countOk, insertOk)
        data == upd.data
    IN  IF upd.kind = "callback"
        THEN CASE data = "publish_today" -> done(today)
               [] data = "custom_date" -> Goto(u, ud, "CONGRAT_DATE_INPUT", "ask_date")
               [] data = "back_to_start" -> start_command(u)
               [] data = "back_to_holiday_choice" -> back_to_holiday_choice(u, ud)
               [] data = "back_to_custom_message" -> back_to_custom_message(u, ud)
               [] OTHER -> Goto(u, ud, "CONGRAT_DATE_INPUT", "error_unknown_button")
        ELSE IF is_today_word(data) THEN done(today)
        ELSE IF ~strptime_ok(data)
        THEN Goto(u, ud, "CONGRAT_DATE_INPUT", "error_date_format")
        ELSE IF data.day < today
        THEN Goto(u, ud, "CONGRAT_DATE_INPUT", "error_past_date")
        ELSE done(data.day)

\* photo: the caption, the number of sizes Telegram sent, whether get_file
\* works and whether the file is larger than 10 MB.  The text handlers are
\* called with the photo update, whose message.text is None.
handle_photo_message(u, ud, photo, countOk, insertOk) ==
    LET ud2 == [ud EXCEPT !.photo_id = "photo", !.text = photo.caption]
    IN  IF photo.sizes < 2 \/ ~photo.fileOk
        THEN Goto(u, ud, END, "error_photo")
        ELSE IF photo.big
        THEN Goto(u, ud, END, "error_photo_big")
        ELSE IF strip(photo.caption) # <<>>
        THEN IF ud.type = "congrat"
             THEN process_congrat_text(u, ud2, <<>>)
             ELSE process_announce_news_text(u, ud2, <<>>, countOk, insertOk)
        ELSE Goto(u, ud2,
                  IF ud.type = "congrat" THEN "CUSTOM_CONGRAT_MESSAGE_INPUT"
                  ELSE "ANNOUNCE_TEXT_INPUT",
                  "ask_text")

unknown_message_fallback(u, ud) == Goto(u, ud, END, "not_understood")

\* ------------------------------------------- setup_handlers: the routing
\* The ConversationHandler gives an update to the first handler of the user's
\* state that accepts it, then to the first fallback that does; with no
\* conversation running only the entry point /start is looked at.
ButtonStates ==
    {"TYPE_SELECTION", "CONGRAT_HOLIDAY_CHOICE", "CONGRAT_DATE_INPUT",
     "ANNOUNCE_SUBTYPE_SELECTION", "WAIT_CENSOR_APPROVAL"}
TextStates ==
    {"SENDER_NAME_INPUT", "RECIPIENT_NAME_INPUT", "CUSTOM_CONGRAT_MESSAGE_INPUT",
     "CONGRAT_DATE_INPUT", "ANNOUNCE_TEXT_INPUT"}
PhotoStates == {"CUSTOM_CONGRAT_MESSAGE_INPUT", "ANNOUNCE_TEXT_INPUT"}
States == ButtonStates \cup TextStates

Message(u, kind, data) == [user |-> u, kind |-> kind, data |-> data]
Moderation == <<now, admin, sweep, channel, boot>>

EntryStart(u) ==
    /\ conv[u] = END
    /\ update' = Message(u, "command", "/start")
    /\ start_command(u)
    /\ UNCHANGED Moderation

OnTypeSelection(u, data) ==
    /\ conv[u] = "TYPE_SELECTION"
    /\ update' = Message(u, "callback", data)
    /\ handle_type_selection(u, user_data[u], data)
    /\ UNCHANGED Moderation

OnSenderName(u, text) ==
    /\ conv[u] = "SENDER_NAME_INPUT"
    /\ update' = Message(u, "text", text)
    /\ get_sender_name(u, user_data[u], text)
    /\ UNCHANGED Moderation

OnRecipientName(u, text) ==
    /\ conv[u] = "RECIPIENT_NAME_INPUT"
    /\ update' = Message(u, "text", text)
    /\ get_recipient_name(u, user_data[u], text)
    /\ UNCHANGED Moderation

OnHolidayChoice(u, data, countOk, insertOk) ==
    /\ conv[u] = "CONGRAT_HOLIDAY_CHOICE"
    /\ update' = Message(u, "callback", data)
    /\ handle_congrat_holiday_choice(u, user_data[u], data, countOk, insertOk)
    /\ UNCHANGED Moderation

OnCongratText(u, text) ==
    /\ conv[u] = "CUSTOM_CONGRAT_MESSAGE_INPUT"
    /\ update' = Message(u, "text", text)
    /\ process_congrat_text(u, user_data[u], text)
    /\ UNCHANGED Moderation

OnPhoto(u, photo, countOk, insertOk) ==
    /\ conv[u] \in PhotoStates
    /\ update' = Message(u, "photo", photo)
    /\ handle_photo_message(u, user_data[u], photo, countOk, insertOk)
    /\ UNCHANGED Moderation

OnCongratDate(u, kind, data, countOk, insertOk) ==
    /\ conv[u] = "CONGRAT_DATE_INPUT"
    /\ update' = Message(u, kind, data)
    /\ process_congrat_date(u, user_data[u], Message(u, kind, data), countOk, insertOk)
    /\ UNCHANGED Moderation

OnSubtypeSelection(u, data) ==
    /\ conv[u] = "ANNOUNCE_SUBTYPE_SELECTION"
    /\ update' = Message(u, "callback", data)
    /\ handle_announce_subtype_selection(u, user_data[u], data)
    /\ UNCHANGED Moderation

OnAnnounceText(u, text, countOk, insertOk) ==
    /\ conv[u] = "ANNOUNCE_TEXT_INPUT"
    /\ update' = Message(u, "text", text)
    /\ process_announce_news_text(u, user_data[u], text, countOk, insertOk)
    /\ UNCHANGED Moderation

OnCensorChoice(u, data, countOk, insertOk) ==
    /\ conv[u] = "WAIT_CENSOR_APPROVAL"
    /\ update' = Message(u, "callback", data)
    /\ handle_censor_choice(u, user_data[u], data, countOk, insertOk)
    /\ UNCHANGED Moderation

\* the fallbacks: /cancel in any state; the three navigation buttons in the
\* states that have no button handler of their own; any other message the
\* state's handlers do not take
FallbackCancel(u) ==
    /\ conv[u] \in States
    /\ update' = Message(u, "command", "/cancel")
    /\ cancel_command(u)
    /\ UNCHANGED Moderation

FallbackButton(u, data) ==
    /\ conv[u] \in States \ ButtonStates
    /\ update' = Message(u, "callback", data)
    /\ CASE data = "back_to_start" -> back_to_start(u)
         [] data = "back_to_holiday_choice" -> back_to_holiday_choice(u, user_data[u])
         [] data = "back_to_custom_message" -> back_to_custom_message(u, user_data[u])
    /\ UNCHANGED Moderation

FallbackUnknown(u, kind, data) ==
    /\ conv[u] \in States
    /\ \/ kind = "command" /\ data # "/cancel"
       \/ kind = "text" /\ conv[u] \notin TextStates
       \/ kind = "photo" /\ conv[u] \notin PhotoStates
    /\ update' = Message(u, kind, data)
    /\ unknown_message_fallback(u, user_data[u])
    /\ UNCHANGED Moderation

\* a pressed button of a user who has no conversation running: the entry point
\* is the command /start only and no other handler takes the button
Unrouted(u, data) ==
    /\ conv[u] = END
    /\ update' = Message(u, "callback", data)
    /\ out' = NoOut
    /\ UNCHANGED <<apps, nextId, conv, user_data>>
    /\ UNCHANGED Moderation

\* ------------------------------------------------------------ publishing
\* the row publish_to_channel read, with the day on which it issues the send
\* value in row, for a sqlite3.Row: the row iterates over the values of its
\* columns, so the test compares value with them and not with their names
\* (the columns that hold strings are compared; a number never equals one)
RowStrings(r) == {r.type, r.subtype, r.congrat_type, r.photo_id, r.status}
row_contains(r, value) == value \in RowStrings(r)
\* "\n\n#НебольшойМирНиколаевск\n🕒 HH:MM", one element after the blank line
CHANNEL_FOOTER == <<Ch("\n"), Ch("\n"), Ch("<hashtag and time>")>>
\* photo_id = app_details['photo_id'] if 'photo_id' in app_details else None
photo_of(r) == IF row_contains(r, "photo_id") THEN r.photo_id ELSE NONE

\* photo is what send_photo is given (NONE: send_message is called instead) and
\* text is message_text, the caption or the text of the message
SendSnap(r, by) ==
    [id |-> r.id, by |-> by, status |-> r.status, published_at |-> r.published_at,
     publish_date |-> r.publish_date, day |-> today,
     photo |-> photo_of(r), text |-> r.text \o CHANNEL_FOOTER]

\* publish_to_channel after its await: the send went through (then the row is
\* marked published, whatever mark_application_as_published returns, "published"
\* is logged and True is returned) or raised (the error is logged and False is
\* returned)
publish_to_channel_done(snap, sendOk, dbOk) ==
    IF Found(snap) /\ sendOk
    THEN /\ channel' = [once |-> channel.once \cup {snap.id},
                        twice |-> IF snap.id \in channel.once
                                  THEN channel.twice \cup {snap.id}
                                  ELSE channel.twice]
         /\ out' = [NoOut EXCEPT !.channel = snap, !.log = "log_published"]
         /\ apps' = mark_application_as_published(apps, snap.id, dbOk)
    ELSE /\ out' = [NoOut EXCEPT !.log = "log_publish_error"]
         /\ UNCHANGED <<apps, channel>>

\* ------------------------------------------------- handle_admin_decision
\* noted and written are history: the submitter has been notified, and the
\* UPDATE of the status returned True
AdminIdle ==
    [pc |-> "idle", action |-> NONE, id |-> NULL, sender |-> NULL,
     details |-> NoRow, noted |-> FALSE, snap |-> NoSend, written |-> FALSE]

\* the columns of app_details the handler goes on to read
Details(d) ==
    IF Found(d)
    THEN [id |-> d.id, user_id |-> d.user_id, type |-> d.type,
          congrat_type |-> d.congrat_type, publish_date |-> d.publish_date,
          text |-> d.text]
    ELSE NoRow

Actions == {"approve", "reject", "view"}

\* should_publish_immediately, from the app_details read when the callback came
should_publish_immediately(d) ==
    ~(/\ d.type = "congrat"
      /\ d.congrat_type = "custom"
      /\ d.publish_date # NULL
      /\ d.publish_date > today)

\* what handle_admin_decision writes when the callback arrives
decide(action, app_id, writeOk) ==
    IF action = "approve"
    THEN update_application_status(apps, app_id, "approved", writeOk)
    ELSE IF action = "reject"
    THEN update_application_status(apps, app_id, "rejected", writeOk)
    ELSE apps

\* The callback arrives: the row is read and, for approve and reject, the status
\* is written; the handler then awaits (answer, edit_message_text).  The sender
\* is not looked at.
AdminCallback(sender, action, app_id, readOk, writeOk) ==
    LET d == get_application_details(app_id, readOk)
    IN  /\ admin.pc = "idle"
        /\ update' = [user |-> sender, kind |-> "callback", data |-> <<action, app_id>>]
        /\ boot' = boot
        /\ admin' = [AdminIdle EXCEPT
                        !.pc = IF ~Found(d) THEN "answer"
                               ELSE IF action = "view" THEN "view" ELSE "edit",
                        !.action = action, !.id = app_id, !.sender = sender,
                        !.details = Details(d),
                        !.written = Found(d) /\ action # "view" /\ writeOk]
        /\ apps' = IF Found(d) THEN decide(action, app_id, writeOk) ELSE apps
        /\ out' = NoOut
        /\ UNCHANGED <<nextId, now, conv, user_data, sweep, channel>>

\* query.answer("Заявка не найдена!")
AdminNotFound ==
    /\ update' = NoUpdate
    /\ boot' = boot
    /\ admin.pc = "answer"
    /\ admin' = AdminIdle
    /\ out' = NoOut
    /\ UNCHANGED <<apps, nextId, now, conv, user_data, sweep, channel>>

\* a view that also approves the row it shows
AdminViewApproving ==
    /\ update' = NoUpdate
    /\ boot' = boot
    /\ admin.pc = "view"
    /\ admin' = AdminIdle
    /\ out' = [NoOut EXCEPT
                  !.admin = [kind |-> "view", id |-> admin.id,
                             text |-> admin.details.text]]
    /\ apps' = update_application_status(apps, admin.id, "approved", TRUE)
    /\ UNCHANGED <<nextId, now, conv, user_data, sweep, channel>>

\* view: the full text goes to the admin chat
AdminView ==
    /\ update' = NoUpdate
    /\ boot' = boot
    /\ admin.pc = "view"
    /\ admin' = AdminIdle
    /\ out' = [NoOut EXCEPT
                  !.admin = [kind |-> "view", id |-> admin.id,
                             text |-> admin.details.text]]
    /\ UNCHANGED <<apps, nextId, now, conv, user_data, sweep, channel>>

\* query.edit_message_text tells the admin the decision; it is not guarded: a
\* TelegramError ends the handler
AdminEdit(editOk) ==
    /\ update' = NoUpdate
    /\ boot' = boot
    /\ admin.pc = "edit"
    /\ admin' = IF editOk THEN [admin EXCEPT !.pc = "notify"] ELSE AdminIdle
    /\ out' = IF editOk
              THEN [NoOut EXCEPT !.admin = [kind |-> "decided", id |-> admin.id,
                                            action |-> admin.action]]
              ELSE NoOut
    /\ UNCHANGED <<apps, nextId, now, conv, user_data, sweep, channel>>

\* notify_user_about_decision, then for approve the decision to publish and the
\* first half of publish_to_channel: the row is read again and the send is
\* issued (snap), or the row is not found and nothing is sent (snap = NoSend)
AdminNotify(readOk) ==
    LET r == get_application_details(admin.id, readOk)
    IN  /\ update' = NoUpdate
        /\ boot' = boot
        /\ admin.pc = "notify"
        /\ out' = [NoOut EXCEPT
                      !.note = [id |-> admin.id, user_id |-> admin.details.user_id,
                                approved |-> (admin.action = "approve"),
                                by |-> admin.sender]]
        /\ admin' = IF /\ admin.action = "approve"
                       /\ should_publish_immediately(admin.details)
                    THEN [admin EXCEPT !.pc = "publish", !.noted = TRUE,
                                       !.snap = IF boot.channel /\ Found(r)
                                                THEN SendSnap(r, "admin")
                                                ELSE NoSend]
                    ELSE AdminIdle
        /\ UNCHANGED <<apps, nextId, now, conv, user_data, sweep, channel>>

\* publish_to_channel returns
AdminSent(sendOk, dbOk) ==
    /\ update' = NoUpdate
    /\ boot' = boot
    /\ admin.pc = "publish"
    /\ publish_to_channel_done(admin.snap, sendOk, dbOk)
    /\ admin' = AdminIdle
    /\ UNCHANGED <<nextId, now, conv, user_data, sweep>>

\* ------------------------------------------- check_pending_applications
\* rows, tried, prev and failed are history: the rows the SELECT returned, the
\* ids publish_to_channel was called for, the ids whose send raised in the
\* preceding sweep and that this sweep selected again, and the ids whose send
\* raised in this sweep (kept until the next sweep starts).
SweepIdle ==
    [pc |-> "idle", list |-> <<>>, snap |-> NoSend,
     rows |-> <<>>, tried |-> {}, prev |-> {}, failed |-> {}]

\* the eligibility of section 3 of the specification
Eligible(r) ==
    /\ r.status = "approved"
    /\ r.published_at = NULL
    /\ (r.publish_date = NULL \/ r.publish_date <= today)

\* the job starts: the SELECT
SweepStart(dbOk) ==
    LET rows == get_approved_unpublished_applications(dbOk)
    IN  /\ update' = NoUpdate
        /\ boot' = boot
        /\ sweep.pc = "idle"
        /\ sweep' = [SweepIdle EXCEPT
                        !.pc = "loop", !.list = rows, !.rows = rows,
                        !.prev = sweep.failed \cap {rows[i].id : i \in 1..Len(rows)}]
        /\ out' = NoOut
        /\ UNCHANGED <<apps, nextId, now, conv, user_data, admin, channel>>

\* app is a sqlite3.Row, which has no get(): for a congrat row
\* app.get('congrat_type') raises AttributeError
RowRaises(app) == app.type = "congrat"

\* One turn of the loop up to its await.  When the row raises, the handler's
\* app.get('id', 'N/A') raises again and the outer except ends the job.  Any
\* other row goes to publish_to_channel.
SweepRow(readOk) ==
    LET app == Head(sweep.list)
        r == get_application_details(app.id, readOk)
    IN  /\ update' = NoUpdate
        /\ boot' = boot
        /\ sweep.pc = "loop"
        /\ sweep.list # <<>>
        /\ sweep' =
             IF RowRaises(app)
             THEN [SweepIdle EXCEPT !.failed = sweep.failed]
             ELSE IF boot.channel /\ Found(r)
             THEN [sweep EXCEPT !.pc = "sending", !.snap = SendSnap(r, "sweep"),
                                !.tried = @ \cup {app.id}]
             ELSE [sweep EXCEPT !.list = Tail(@), !.tried = @ \cup {app.id}]
        /\ out' = NoOut
        /\ UNCHANGED <<apps, nextId, now, conv, user_data, admin, channel>>

SweepSent(sendOk, dbOk) ==
    /\ update' = NoUpdate
    /\ boot' = boot
    /\ sweep.pc = "sending"
    /\ publish_to_channel_done(sweep.snap, sendOk, dbOk)
    /\ sweep' = [sweep EXCEPT !.pc = "loop", !.list = Tail(@), !.snap = NoSend,
                              !.failed = IF sendOk THEN @ ELSE @ \cup {sweep.snap.id}]
    /\ UNCHANGED <<nextId, now, conv, user_data, admin>>

SweepEnd ==
    /\ update' = NoUpdate
    /\ boot' = boot
    /\ sweep.pc = "loop"
    /\ sweep.list = <<>>
    /\ sweep' = [SweepIdle EXCEPT !.failed = sweep.failed]
    /\ out' = NoOut
    /\ UNCHANGED <<apps, nextId, now, conv, user_data, admin, channel>>

\* --------------------------------------------------------------- startup
\* main: sys.exit(1) when check_environment fails, else uvicorn.run
Main ==
    /\ boot.pc = "main"
    /\ boot' = [boot EXCEPT !.pc = IF check_environment THEN "startup" ELSE "exited"]
    /\ update' = NoUpdate
    /\ out' = NoOut
    /\ UNCHANGED <<apps, nextId, now, conv, user_data, admin, sweep, channel>>

\* startup_event: raises without a token, which ends the server; otherwise the
\* handlers and the jobs are set up and updates are served
startup_event ==
    /\ boot.pc = "startup"
    /\ boot' = [boot EXCEPT !.pc = IF boot.token THEN "serving" ELSE "exited"]
    /\ update' = NoUpdate
    /\ out' = NoOut
    /\ UNCHANGED <<apps, nextId, now, conv, user_data, admin, sweep, channel>>

\* webhook_handler's try block: the exception it raises, or "ok" when the
\* update was read and put on the queue.  secret is WEBHOOK_SECRET (NONE when
\* unset), token the header X-Telegram-Bot-Api-Secret-Token (NONE when the
\* header is missing), ready says that startup_event has built the
\* application, body is the request's body.
webhook_try(secret, token, ready, body) ==
    IF secret # NONE /\ token \in {NONE, ""}
    THEN "HTTPException 403"
    ELSE IF secret # NONE /\ token # secret
    THEN "HTTPException 403"
    ELSE IF ~ready
    THEN "HTTPException 503"
    ELSE IF body = "not json"
    THEN "JSONDecodeError"
    ELSE "ok"

\* except Exception catches whatever the try block raised, the HTTPExceptions
\* too, and raises HTTPException(500)
webhook_handler(secret, token, ready, body) ==
    LET raised == webhook_try(secret, token, ready, body)
    IN  IF raised = "ok"
        THEN [status |-> "200", put |-> TRUE]
        ELSE [status |-> "500", put |-> FALSE]

\* one POST /webhook: the answer is out.reply, the request is kept in update
Webhook(token, body) ==
    LET r == webhook_handler(boot.secret, token, boot.pc = "serving", body)
    IN  /\ boot.pc \in {"startup", "serving"}
        /\ Len(boot.queue) < MaxQueue
        /\ boot' = [boot EXCEPT !.queue = IF r.put THEN Append(@, body) ELSE @]
        /\ update' = [user |-> NULL, kind |-> "webhook", data |-> <<token, body>>]
        /\ out' = [NoOut EXCEPT !.reply = r.status]
        /\ UNCHANGED <<apps, nextId, now, conv, user_data, admin, sweep, channel>>

\* application.start(): the running application takes the next update off its
\* update queue
Fetch ==
    /\ boot.pc = "serving"
    /\ boot.queue # <<>>
    /\ boot' = [boot EXCEPT !.queue = Tail(@)]
    /\ update' = [user |-> NULL, kind |-> "fetched", data |-> Head(boot.queue)]
    /\ out' = NoOut
    /\ UNCHANGED <<apps, nextId, now, conv, user_data, admin, sweep, channel>>

\* ----------------------------------------------------------------- clock
NextDay ==
    /\ update' = NoUpdate
    /\ boot' = boot
    /\ today < StartDay + MaxDay
    /\ now' = (today + 1) * TicksPerDay
    /\ out' = NoOut
    /\ UNCHANGED <<apps, nextId, conv, user_data, admin, sweep, channel>>

Tick ==
    /\ update' = NoUpdate
    /\ boot' = boot
    /\ now % TicksPerDay < MaxTick
    /\ now' = now + 1
    /\ out' = NoOut
    /\ UNCHANGED <<apps, nextId, conv, user_data, admin, sweep, channel>>

\* CLEANUP_DAYS days pass
Later ==
    /\ update' = NoUpdate
    /\ boot' = boot
    /\ today < StartDay + MaxMonth * CLEANUP_DAYS
    /\ now' = now + CLEANUP_DAYS * TicksPerDay
    /\ out' = NoOut
    /\ UNCHANGED <<apps, nextId, conv, user_data, admin, sweep, channel>>

\* -------------------------------------------------------------- cleanup
\* the cron job cleanup_old_applications(30): one DELETE, and a line in the log
\* (out.log) that says whether it ran or raised sqlite3.Error
Cleanup(dbOk) ==
    /\ update' = NoUpdate
    /\ boot' = boot
    /\ apps' = cleanup_old_applications(apps, CLEANUP_DAYS, dbOk)
    /\ out' = [NoOut EXCEPT !.log = IF dbOk THEN "log_cleanup_done"
                                    ELSE "log_cleanup_error"]
    /\ UNCHANGED <<nextId, now, conv, user_data, admin, sweep, channel>>

\* ------------------------------------------------------- moderation runs
\* what a conversation holds when it reaches complete_request
SubmitData ==
    {[NoData EXCEPT !.type = "news", !.text = Str(<<"x">>)]}
    \cup
    {[NoData EXCEPT !.type = "congrat", !.congrat_type = c,
                    !.text = Str(<<"x">>), !.publish_date = d]
        : c \in {"custom", "4 Noqbrq"}, d \in {today, today + 1}}

\* a conversation of user u ends in complete_request (handlers run one at a
\* time, so not while handle_admin_decision is in flight)
Submit(u, ud, countOk, insertOk) ==
    /\ admin.pc = "idle"
    /\ update' = [user |-> u, kind |-> "last", data |-> <<>>]
    /\ boot' = boot
    /\ complete_request(u, ud, <<>>, countOk, insertOk)
    /\ UNCHANGED <<now, admin, sweep, channel>>

Init ==
    /\ apps = {}
    /\ nextId = 1
    /\ now = StartDay * TicksPerDay
    /\ conv = [u \in Users |-> END]
    /\ user_data = [u \in Users |-> NoData]
    /\ admin = AdminIdle
    /\ sweep = SweepIdle
    /\ channel = [once |-> {}, twice |-> {}]
    /\ out = NoOut
    /\ update = NoUpdate
    /\ boot = Configured

Next ==
    \/ \E u \in Submitters, ud \in SubmitData, c, i \in BOOLEAN :
           nextId <= MaxApps /\ Submit(u, ud, c, i)
    \/ \E s \in Senders, a \in Actions, id \in 1..MaxApps, r, w \in BOOLEAN :
           AdminCallback(s, a, id, r, w)
    \/ AdminNotFound
    \/ AdminView
    \/ \E ok \in BOOLEAN : AdminEdit(ok)
    \/ \E ok \in BOOLEAN : AdminNotify(ok)
    \/ \E s, d \in BOOLEAN : AdminSent(s, d)
    \/ \E ok \in BOOLEAN : SweepStart(ok)
    \/ \E ok \in BOOLEAN : SweepRow(ok)
    \/ \E s, d \in BOOLEAN : SweepSent(s, d)
    \/ SweepEnd
    \/ NextDay

Spec == Init /\ [][Next]_vars

\* ------------------------------------------------------------ sweep runs
\* Two applications, decided by the admin, with a database that answers: the
\* runs in which the sweep meets more than one row.  A row stays approved and
\* unpublished when the admin's edit_message_text or the send fails.
SweepData ==
    {[NoData EXCEPT !.type = "news", !.text = Str(<<"x">>)],
     [NoData EXCEPT !.type = "congrat", !.congrat_type = "4 Noqbrq",
                    !.text = Str(<<"x">>), !.publish_date = today]}

NextSweep ==
    \/ \E ud \in SweepData : nextId <= MaxSweepApps /\ Submit(1, ud, TRUE, TRUE)
    \/ \E id \in 1..MaxSweepApps :
           AdminCallback(ADMIN_CHAT_ID, "approve", id, TRUE, TRUE)
    \/ \E ok \in BOOLEAN : AdminEdit(ok)
    \/ AdminNotify(TRUE)
    \/ \E s \in BOOLEAN : AdminSent(s, TRUE)
    \/ SweepStart(TRUE)
    \/ SweepRow(TRUE)
    \/ \E s, d \in BOOLEAN : SweepSent(s, d)
    \/ SweepEnd

SpecSweep == Init /\ [][NextSweep]_vars

\* ------------------------------------------------------ conversation runs
\* what the user sends: names, texts, dates, photos, commands and buttons
ConvUsers == {1}
Names ==
    {Str(<<"x", "x">>), Str(<<"s", "u", "k", "a">>), Str(<<"x">>),
     Str(<<"x", "1">>), <<Run("x", MAX_NAME_LENGTH + 1)>>, Str(<<" ">>)}
\* the phone number +79991234567 sent as a message
PhoneText == Str(<<"+", "7", "9", "9", "9", "1", "2", "3", "4", "5", "6", "7">>)
Texts ==
    {PhoneText, <<Run("x", MIN_TEXT_LENGTH)>>, <<Run("x", MIN_TEXT_LENGTH - 1)>>,
     <<Run("x", MAX_TEXT_LENGTH)>>, <<Run("x", MAX_TEXT_LENGTH + 1)>>,
     Str(<<" ">>), <<Ch(" "), Run("x", MIN_TEXT_LENGTH)>>,
     Str(<<"S", "u", "k", "a">>) \o <<Run("x", MIN_TEXT_LENGTH)>>,
     Str(<<"t", "e", "l", ":", "8", "9", "1", "2", "7", "0", "0">>)}
DateTexts ==
    {[fmt |-> "word", day |-> NULL], [fmt |-> "ymd", day |-> NULL],
     [fmt |-> "junk", day |-> NULL]}
    \cup {[fmt |-> "dmy", day |-> d] : d \in {today - 1, today, today + 1}}
APhoto == [caption |-> <<Run("x", MIN_TEXT_LENGTH)>>, sizes |-> 2, fileOk |-> TRUE,
           big |-> FALSE]
Photos ==
    {APhoto, [APhoto EXCEPT !.caption = <<>>], [APhoto EXCEPT !.sizes = 1],
     [APhoto EXCEPT !.fileOk = FALSE], [APhoto EXCEPT !.big = TRUE]}
Commands == {"/start", "/cancel", "/help"}
FallbackDatas == {"back_to_start", "back_to_holiday_choice", "back_to_custom_message"}

NextConv ==
    \/ \E u \in ConvUsers : nextId <= MaxConvApps /\ EntryStart(u)
    \/ \E u \in ConvUsers, d \in Datas : OnTypeSelection(u, d)
    \/ \E u \in ConvUsers, t \in Names : OnSenderName(u, t)
    \/ \E u \in ConvUsers, t \in Names : OnRecipientName(u, t)
    \/ \E u \in ConvUsers, d \in Datas, c, i \in BOOLEAN : OnHolidayChoice(u, d, c, i)
    \/ \E u \in ConvUsers, t \in Texts : OnCongratText(u, t)
    \/ \E u \in ConvUsers, p \in Photos, c, i \in BOOLEAN : OnPhoto(u, p, c, i)
    \/ \E u \in ConvUsers, d \in Datas, c, i \in BOOLEAN :
           OnCongratDate(u, "callback", d, c, i)
    \/ \E u \in ConvUsers, d \in DateTexts, c, i \in BOOLEAN :
           OnCongratDate(u, "text", d, c, i)
    \/ \E u \in ConvUsers, d \in Datas : OnSubtypeSelection(u, d)
    \/ \E u \in ConvUsers, t \in Texts, c, i \in BOOLEAN : OnAnnounceText(u, t, c, i)
    \/ \E u \in ConvUsers, d \in Datas, c, i \in BOOLEAN : OnCensorChoice(u, d, c, i)
    \/ \E u \in ConvUsers : FallbackCancel(u)
    \/ \E u \in ConvUsers, d \in FallbackDatas : FallbackButton(u, d)
    \/ \E u \in ConvUsers, c \in Commands : FallbackUnknown(u, "command", c)
    \/ \E u \in ConvUsers : FallbackUnknown(u, "text", <<Run("x", MIN_TEXT_LENGTH)>>)
    \/ \E u \in ConvUsers : FallbackUnknown(u, "photo", APhoto)
    \/ \E u \in ConvUsers : Unrouted(u, "back_to_start")

SpecConv == Init /\ [][NextConv]_vars

\* ------------------------------------------------------ rate-limit runs
\* two users submit news again and again while the clock advances within the
\* day; the COUNT query may fail
RateData == [NoData EXCEPT !.type = "news", !.text = Str(<<"x">>)]

NextRate ==
    \/ \E u \in Users, c \in BOOLEAN :
           nextId <= MaxRateApps /\ Submit(u, RateData, c, TRUE)
    \/ Tick

SpecRate == Init /\ [][NextRate]_vars

\* --------------------------------------------------------- cleanup runs
\* A user submits news through the conversation, the admin decides and views,
\* rows are published at approval, weeks pass and the cleanup job runs.  The
\* handlers run one at a time; the jobs run between them.
NewsText == <<Run("x", MIN_TEXT_LENGTH)>>

NextCleanup ==
    \/ \E u \in ConvUsers :
           admin.pc = "idle" /\ nextId <= MaxCleanupApps /\ EntryStart(u)
    \/ \E u \in ConvUsers : admin.pc = "idle" /\ OnTypeSelection(u, "news")
    \/ \E u \in ConvUsers :
           admin.pc = "idle" /\ OnAnnounceText(u, NewsText, TRUE, TRUE)
    \/ \E a \in Actions, id \in 1..MaxCleanupApps :
           AdminCallback(ADMIN_CHAT_ID, a, id, TRUE, TRUE)
    \/ AdminNotFound
    \/ AdminView
    \/ AdminEdit(TRUE)
    \/ AdminNotify(TRUE)
    \/ \E s \in BOOLEAN : AdminSent(s, TRUE)
    \/ \E ok \in BOOLEAN : Cleanup(ok)
    \/ Later

SpecCleanup == Init /\ [][NextCleanup]_vars

\* ------------------------------------------------------------ name runs
\* what is typed at the two name prompts: the names above and names at the
\* limits of the length, with a hyphen, inner and outer whitespace, capitals
NameInputs ==
    Names \cup
    {Str(<<"x", "-", "x">>), Str(<<"-", "-">>), Str(<<"S", "x", " ", "x">>),
     Str(<<" ", "x", "x", " ">>), Str(<<" ", "x">>), Str(<<"x", "\n", "x">>),
     <<Run("x", MAX_NAME_LENGTH)>>, <<Run("x", MAX_NAME_LENGTH - 1), Ch("1")>>,
     Str(<<"x", "+">>)}

NextNames ==
    \/ \E u \in ConvUsers : EntryStart(u)
    \/ \E u \in ConvUsers : OnTypeSelection(u, "congrat")
    \/ \E u \in ConvUsers, t \in NameInputs : OnSenderName(u, t)
    \/ \E u \in ConvUsers, t \in NameInputs : OnRecipientName(u, t)
    \/ \E u \in ConvUsers : FallbackCancel(u)

SpecNames == Init /\ [][NextNames]_vars

\* ----------------------------------------------------------- censor runs
\* censor_text as a function: the texts are made of up to MaxTokens pieces (bad
\* words in both cases, halves of a bad word, a trigger of the contact
\* pattern, digits, harmless characters), and one call is made on each
CensorTokens ==
    {Str(<<"s", "u", "k", "a">>), Str(<<"S", "U", "k", "A">>), Str(<<"h", "u", "j">>),
     Str(<<"s", "u">>), Str(<<"k", "a">>), Str(<<"x">>), Str(<<" ">>),
     Str(<<"t", "e", "l", ":">>), Str(<<"8", "9", "1", "2", "7", "0", "0">>)}
RECURSIVE Concat(_)
Concat(ts) == IF ts = <<>> THEN <<>> ELSE Head(ts) \o Concat(Tail(ts))
CensorInputs ==
    {Concat(ts) : ts \in UNION {[1..n -> CensorTokens] : n \in 0..MaxTokens}}

InitCensor ==
    /\ apps = {}
    /\ nextId = 1
    /\ now = StartDay * TicksPerDay
    /\ conv = [u \in Users |-> END]
    /\ \E t \in CensorInputs :
           user_data = [u \in Users |-> [NoData EXCEPT !.text = t]]
    /\ admin = AdminIdle
    /\ sweep = SweepIdle
    /\ channel = [once |-> {}, twice |-> {}]
    /\ out = NoOut
    /\ update = NoUpdate
    /\ boot = Configured

\* censored_text, has_bad = await censor_text(text): the pair is kept in
\* user_data["censored_text"] and in the reply
CensorCall(u) ==
    LET c == censor_text(user_data[u].text)
    IN  /\ out.reply = NONE
        /\ user_data' = [user_data EXCEPT ![u].censored_text = c[1]]
        /\ out' = [NoOut EXCEPT !.reply = IF c[2] THEN "has_bad" ELSE "no_bad"]
        /\ update' = NoUpdate
        /\ UNCHANGED <<apps, nextId, conv>>
        /\ UNCHANGED Moderation

NextCensor == \E u \in ConvUsers : CensorCall(u)

SpecCensor == InitCensor /\ [][NextCensor]_vars

\* ------------------------------------------------------------ photo runs
\* a news item is submitted with or without a photo, the admin decides and the
\* sweep runs, with sends that go through or raise
PhotoData ==
    {[NoData EXCEPT !.type = "news", !.text = Str(<<"x">>), !.photo_id = p]
        : p \in {NONE, "photo"}}

NextPhoto ==
    \/ \E u \in Submitters, ud \in PhotoData :
           nextId <= MaxPhotoApps /\ Submit(u, ud, TRUE, TRUE)
    \/ \E a \in Actions, id \in 1..MaxPhotoApps :
           AdminCallback(ADMIN_CHAT_ID, a, id, TRUE, TRUE)
    \/ AdminView
    \/ AdminEdit(TRUE)
    \/ AdminNotify(TRUE)
    \/ \E s \in BOOLEAN : AdminSent(s, TRUE)
    \/ SweepStart(TRUE)
    \/ SweepRow(TRUE)
    \/ \E s \in BOOLEAN : SweepSent(s, TRUE)
    \/ SweepEnd

SpecPhoto == Init /\ [][NextPhoto]_vars

\* --------------------------------------------------------- startup runs
\* The process starts with any of the three settings set or missing; once it
\* serves, a user goes through the news and announcement conversation.
InitStart ==
    /\ apps = {}
    /\ nextId = 1
    /\ now = StartDay * TicksPerDay
    /\ conv = [u \in Users |-> END]
    /\ user_data = [u \in Users |-> NoData]
    /\ admin = AdminIdle
    /\ sweep = SweepIdle
    /\ channel = [once |-> {}, twice |-> {}]
    /\ out = NoOut
    /\ update = NoUpdate
    /\ boot \in {Booting(cfg) : cfg \in Configs}

Serving == boot.pc = "serving"

NextStart ==
    \/ Main
    \/ startup_event
    \/ \E u \in ConvUsers : Serving /\ nextId <= MaxConvApps /\ EntryStart(u)
    \/ \E u \in ConvUsers, d \in Datas : Serving /\ OnTypeSelection(u, d)
    \/ \E u \in ConvUsers, d \in Datas : Serving /\ OnSubtypeSelection(u, d)
    \/ \E u \in ConvUsers, t \in Texts, i \in BOOLEAN :
           Serving /\ OnAnnounceText(u, t, TRUE, i)
    \/ \E u \in ConvUsers, d \in {"accept", "edit"} :
           Serving /\ OnCensorChoice(u, d, TRUE, TRUE)
    \/ \E u \in ConvUsers : Serving /\ FallbackCancel(u)

SpecStart == InitStart /\ [][NextStart]_vars

\* --------------------------------------------------------- holiday runs
\* The days on which the greeting is written: around 4 November, around
\* 1 January of the starting year, the last days of December and the first
\* days of the next January (day 365 is 1 January of the next year).
HolidayDays == {0, 5, 6, 301, 302, 312, 313, 359, 360, 364, 365, 370, 371}
HolidayDatas == {"holiday_Novyj god", "holiday_4 Noqbrq"}
HolidayNames == {Str(<<"x", "x">>), Str(<<"x">>)}

InitHoliday ==
    /\ apps = {}
    /\ nextId = 1
    /\ now \in {d * TicksPerDay : d \in HolidayDays}
    /\ conv = [u \in Users |-> END]
    /\ user_data = [u \in Users |-> NoData]
    /\ admin = AdminIdle
    /\ sweep = SweepIdle
    /\ channel = [once |-> {}, twice |-> {}]
    /\ out = NoOut
    /\ update = NoUpdate
    /\ boot = Configured

NextHoliday ==
    \/ \E u \in ConvUsers : EntryStart(u)
    \/ \E u \in ConvUsers : OnTypeSelection(u, "congrat")
    \/ \E u \in ConvUsers, t \in HolidayNames : OnSenderName(u, t)
    \/ \E u \in ConvUsers, t \in HolidayNames : OnRecipientName(u, t)
    \/ \E u \in ConvUsers, d \in HolidayDatas : OnHolidayChoice(u, d, TRUE, TRUE)
    \/ \E u \in ConvUsers : FallbackUnknown(u, "photo", APhoto)

SpecHoliday == InitHoliday /\ [][NextHoliday]_vars

\* --------------------------------------------------------- webhook runs
\* The server is about to run startup_event, with WEBHOOK_SECRET set or not;
\* requests arrive with no token header, an empty one, a wrong one or the
\* right one, and with a body that is one of two updates or not JSON at all.
WEBHOOK_SECRET == "s3cret"
WebhookTokens == {NONE, "", "wrong", WEBHOOK_SECRET}
WebhookBodies == {"update 1", "update 2", "not json"}

InitWebhook ==
    /\ apps = {}
    /\ nextId = 1
    /\ now = StartDay * TicksPerDay
    /\ conv = [u \in Users |-> END]
    /\ user_data = [u \in Users |-> NoData]
    /\ admin = AdminIdle
    /\ sweep = SweepIdle
    /\ channel = [once |-> {}, twice |-> {}]
    /\ out = NoOut
    /\ update = NoUpdate
    /\ \E secret \in {NONE, WEBHOOK_SECRET} :
           boot = [token |-> TRUE, channel |-> TRUE, admin_chat |-> TRUE,
                   pc |-> "startup", secret |-> secret, queue |-> <<>>]

NextWebhook ==
    \/ startup_event
    \/ \E t \in WebhookTokens, b \in WebhookBodies : Webhook(t, b)
    \/ Fetch

SpecWebhook == InitWebhook /\ [][NextWebhook]_vars

\* =================================================== claims, moderation
\* the status changes section 3 of the specification allows
Forward ==
    {<<"pending", "approved">>, <<"pending", "rejected">>,
     <<"approved", "published">>}

\* C1: whatever admin callbacks and sweeps happen, the status of an application
\* only ever changes pending -> approved, pending -> rejected or
\* approved -> published.
C1_StatusOnlyForward ==
    [][\A r \in apps : \A q \in apps' :
          (q.id = r.id /\ q.status # r.status) => <<r.status, q.status>> \in Forward]_vars

\* C2: every send to the channel, by an approval or by the sweep, is of a row
\* that publish_to_channel read as approved, with published_at NULL and a
\* publish_date unset or not later than the day of the send.
C2_SendOnlyEligible ==
    out.channel # NoSend =>
        /\ out.channel.status = "approved"
        /\ out.channel.published_at = NULL
        /\ (out.channel.publish_date = NULL
              \/ out.channel.publish_date <= out.channel.day)

\* a step of handle_admin_decision, and the sender of the callback it serves
AdminStep == admin' # admin
StepSender == IF admin.pc = "idle" THEN admin'.sender ELSE admin.sender

\* C3: a callback whose sender is not the admin chat changes no row, notifies no
\* submitter and sends nothing to the channel, at any step of its handling.
C3_NonAdminIgnored ==
    [][(AdminStep /\ StepSender # ADMIN_CHAT_ID) =>
          /\ apps' = apps
          /\ out'.note = NoNote
          /\ out'.channel = NoSend
          /\ channel' = channel]_vars

\* the application is a custom greeting dated after today
CustomFuture(d) ==
    /\ d.type = "congrat"
    /\ d.congrat_type = "custom"
    /\ d.publish_date # NULL
    /\ d.publish_date > today

\* C5: when approve arrives for an existing row its status becomes approved;
\* the handler does not end before the submitter is notified; after the
\* notification publish_to_channel is called, except for a custom greeting
\* dated after today, for which the handler ends leaving the row approved and
\* unpublished.
C5_ApproveNotifiesAndPublishes ==
    [][(AdminStep /\ (IF admin.pc = "idle" THEN admin' ELSE admin).action = "approve") =>
          /\ (admin.pc = "idle" /\ admin'.pc = "edit") =>
                 RowOf(apps', admin'.id).status = "approved"
          /\ (admin.pc # "idle" /\ admin'.pc = "idle" /\ Found(admin.details)) =>
                 (admin.noted \/ out'.note # NoNote)
          /\ admin.pc = "notify" =>
                 /\ out'.note # NoNote
                 /\ out'.note.approved
                 /\ out'.note.user_id = admin.details.user_id
                 /\ IF CustomFuture(admin.details)
                    THEN /\ admin'.pc = "idle"
                         /\ apps' = apps
                         /\ out'.channel = NoSend
                    ELSE admin'.pc = "publish"]_vars

\* C12: when reject arrives for an existing row its status becomes rejected;
\* the handler does not end before the submitter is sent the rejection message;
\* no step of the handler sends to the channel or marks a row published.
C12_RejectNotifiesWithoutPublishing ==
    [][(AdminStep /\ (IF admin.pc = "idle" THEN admin' ELSE admin).action = "reject") =>
          /\ (admin.pc = "idle" /\ admin'.pc = "edit") =>
                 RowOf(apps', admin'.id).status = "rejected"
          /\ (admin.pc # "idle" /\ admin'.pc = "idle" /\ Found(admin.details)) =>
                 /\ out'.note # NoNote
                 /\ ~out'.note.approved
                 /\ out'.note.user_id = admin.details.user_id
          /\ out'.channel = NoSend
          /\ channel' = channel
          /\ {<<r.id, r.published_at>> : r \in apps'} =
                 {<<r.id, r.published_at>> : r \in apps}]_vars

\* C17: while a callback approve or reject is handled whose UPDATE of the
\* status failed, the handler goes on to nothing: the admin's message is not
\* edited to say approved or rejected, the submitter is sent no message and
\* nothing is sent to the channel.
C17_FailedUpdateStopsHandler ==
    [][(/\ AdminStep
        /\ admin.pc # "idle"
        /\ admin.action \in {"approve", "reject"}
        /\ Found(admin.details)
        /\ ~admin.written) =>
           /\ admin'.pc = "idle"
           /\ out'.admin = NoMsg
           /\ out'.note = NoNote
           /\ out'.channel = NoSend
           /\ channel' = channel]_vars

\* ================================================= claims, conversation
\* C4: the text of every row is the output of censor_text for the text made
\* from what the user submitted: bad words starred, contact sequences hidden.
C4_StoredTextIsFiltered ==
    \A r \in apps : r.text = censor_text(r.raw)[1]

\* the buttons the bot shows
KnownDatas == Datas \ {"bogus", "subtype_boat", "holiday_Pasha"}
\* the user leaves, cancels or restarts: a command, the button back to the
\* start, or a button the bot does not know
Leaves(upd) ==
    \/ upd.kind = "command"
    \/ upd.kind = "callback" /\ upd.data = "back_to_start"
    \/ upd.kind = "callback" /\ upd.data \notin KnownDatas
\* C9: a row is added only by a step that ends in a completed complete_request
\* (the answer "created", one new row, the conversation over), and a step in
\* which the user leaves, cancels or restarts leaves the table as it was.
C9_InsertOnlyAtCompletion ==
    [][/\ apps' # apps =>
              /\ \E r \in apps' : r.id = nextId /\ apps' = apps \cup {r}
              /\ out'.reply = "created"
              /\ conv'[update'.user] = END
       /\ Leaves(update') => apps' = apps]_vars

\* the user left a conversation in which a text had been entered (a command
\* the conversation does not know ended it), and the table is empty
C9_Witness ==
    /\ update.user \in ConvUsers
    /\ update.kind = "command"
    /\ update.data = "/help"
    /\ conv[update.user] = END
    /\ user_data[update.user].text # <<>>
    /\ apps = {}

\* the inputs section 4 of the specification calls invalid, per state
InvalidText(t) ==
    \/ strip(t) = <<>>
    \/ len(strip(t)) > MAX_TEXT_LENGTH
    \/ len(strip(t)) < MIN_TEXT_LENGTH
InvalidDate(d) == d.fmt \in {"ymd", "junk"} \/ (d.fmt = "dmy" /\ d.day < today)
InvalidInput(state, upd) ==
    \/ /\ upd.kind = "callback"
       /\ state \in ButtonStates
       /\ upd.data \notin KnownDatas
    \/ /\ upd.kind = "text"
       /\ \/ /\ state \in {"SENDER_NAME_INPUT", "RECIPIENT_NAME_INPUT"}
             /\ ~validate_name(strip(upd.data))
          \/ /\ state \in {"CUSTOM_CONGRAT_MESSAGE_INPUT", "ANNOUNCE_TEXT_INPUT"}
             /\ InvalidText(upd.data)
          \/ /\ state = "CONGRAT_DATE_INPUT"
             /\ InvalidDate(upd.data)
IsError(reply) ==
    reply \in {"error_empty", "error_name", "error_long", "error_short",
               "error_date_format", "error_past_date", "error_unknown_button",
               "error_unknown_type", "error_unknown_holiday",
               "error_unknown_subtype", "error_choice", "error_holiday_inactive"}

\* C10: in every input state an invalid input leaves the user in that state
\* and is answered with an error message.
C10_InvalidInputKeepsState ==
    [][\A u \in ConvUsers :
          (update'.user = u /\ InvalidInput(conv[u], update')) =>
              (conv'[u] = conv[u] /\ IsError(out'.reply))]_vars

\* censor_text finds a bad word in t
HasBadWord(t) == \E k \in 1..Len(load_bad_words) : re_search(load_bad_words[k], t)
TextEntryStates == {"CUSTOM_CONGRAT_MESSAGE_INPUT", "ANNOUNCE_TEXT_INPUT"}
\* the user's custom greeting, which has a date step after the text
IsCustom(ud) == ud.type = "congrat" /\ ud.congrat_type = "custom"
\* the step serves button data of user u in the censor preview
Pressed(u, data) ==
    /\ conv[u] = "WAIT_CENSOR_APPROVAL"
    /\ update'.user = u
    /\ update'.kind = "callback"
    /\ update'.data = data
\* the step adds one row, whose text is the censored form of the text entered
PersistsCensored(u) ==
    \E r \in apps' :
        /\ r.id = nextId
        /\ apps' = apps \cup {r}
        /\ r.text = user_data[u].censored_text
        /\ r.text = censor_text(user_data[u].text)[1]

\* C11: a text in which censor_text finds a bad word takes the user to the
\* preview without a row being added; in the preview only accept adds a row;
\* accept saves the censored text at once, or for a custom greeting goes to the
\* date step whose completion saves the censored text; edit goes back to a text
\* entry state without a row being added.
C11_CensorPreviewWaits ==
    [][\A u \in ConvUsers :
          /\ (/\ update'.user = u
              /\ update'.kind = "text"
              /\ conv[u] \in TextEntryStates
              /\ ~InvalidText(update'.data)
              /\ HasBadWord(update'.data)) =>
                 /\ conv'[u] = "WAIT_CENSOR_APPROVAL"
                 /\ out'.reply = "censor_preview"
                 /\ user_data'[u].censored_text = censor_text(user_data'[u].text)[1]
                 /\ apps' = apps
          /\ (conv[u] = "WAIT_CENSOR_APPROVAL" /\ apps' # apps) => Pressed(u, "accept")
          /\ (Pressed(u, "accept") /\ ~IsCustom(user_data[u])) =>
                 /\ conv'[u] = END
                 /\ out'.reply \in {"created", "error_too_many", "error_save"}
                 /\ out'.reply = "created" => PersistsCensored(u)
          /\ (Pressed(u, "accept") /\ IsCustom(user_data[u])) =>
                 /\ conv'[u] = "CONGRAT_DATE_INPUT"
                 /\ user_data'[u] = user_data[u]
                 /\ apps' = apps
          /\ (/\ conv[u] = "CONGRAT_DATE_INPUT"
              /\ update.user = u
              /\ update.kind = "callback"
              /\ update.data = "accept"
              /\ out.reply = "choose_date"
              /\ apps' # apps) => PersistsCensored(u)
          /\ Pressed(u, "edit") =>
                 /\ conv'[u] \in TextEntryStates
                 /\ apps' = apps]_vars

\* accept was pressed in the preview of a news text and the row holds the
\* censored text, which differs from what was typed
C11_Witness ==
    /\ update.user \in ConvUsers
    /\ update.kind = "callback"
    /\ update.data = "accept"
    /\ conv[update.user] = END
    /\ \E r \in apps : r.type = "news" /\ r.text # r.raw /\ r.text = censor_text(r.raw)[1]

\* C18: a step of a conversation whose INSERT raised sqlite3.Error adds no
\* row, sends the admin nothing, answers the user with the failure message and
\* ends the conversation with user_data cleared; and the admin is notified of a
\* new application only in a step that added its row.
C18_FailedInsertLeavesNothing ==
    [][\A u \in ConvUsers : update'.user = u =>
          /\ out'.log = "log_insert_error" =>
                 /\ apps' = apps
                 /\ nextId' = nextId
                 /\ out'.admin = NoMsg
                 /\ out'.reply = "error_save"
                 /\ conv'[u] = END
                 /\ user_data'[u] = NoData
          /\ out'.admin # NoMsg =>
                 \E r \in apps' : r \notin apps /\ r.id = out'.admin.id]_vars

\* the INSERT failed for a news text: the user was told, nothing was saved and
\* the conversation is over
C18_Witness ==
    /\ update.user \in ConvUsers
    /\ update.kind = "text"
    /\ out.log = "log_insert_error"
    /\ out.reply = "error_save"
    /\ conv[update.user] = END
    /\ user_data[update.user] = NoData
    /\ apps = {}

\* the step serves a text of user u who chose news and is asked for the text
NewsTextStep(u) ==
    /\ update'.user = u
    /\ update'.kind = "text"
    /\ conv[u] = "ANNOUNCE_TEXT_INPUT"
    /\ user_data[u].type = "news"

\* C20: in the news flow (/start, "news", the phone number, the text) the
\* message with the phone number adds no row; a text within the length limits
\* that the filter lets through adds, when the INSERT succeeds, exactly one row
\* of type news and status pending whose text is made from that text, and the
\* admin is sent a notification that holds the whole text of the row.
C20_NewsFlowEndToEnd ==
    [][\A u \in ConvUsers :
          /\ (NewsTextStep(u) /\ update'.data = PhoneText) => apps' = apps
          /\ (/\ NewsTextStep(u)
              /\ update'.data # PhoneText
              /\ ~InvalidText(update'.data)
              /\ ~HasBadWord(update'.data)
              /\ out'.log = NONE) =>
                 \E r \in apps' :
                     /\ r \notin apps
                     /\ apps' = apps \cup {r}
                     /\ r.type = "news"
                     /\ r.status = "pending"
                     /\ r.raw = format_news(strip(update'.data))
                     /\ out'.admin # NoMsg
                     /\ out'.admin.id = r.id
                     /\ out'.admin.text = r.text]_vars

\* ==================================================== claims, rate limit
\* the rows of user u created in the hour that ends at tick T
InHour(u, T) ==
    {r \in apps : r.user_id = u /\ r.created_at > T - TicksPerHour /\ r.created_at <= T}

\* C6: for every user and every hour, at most 5 of the user's rows were created
\* in that hour.
C6_AtMostFivePerHour ==
    \A u \in Users : \A T \in (StartDay * TicksPerDay)..now :
        Cardinality(InHour(u, T)) <= RATE_LIMIT

\* ====================================================== claims, cleanup
\* a row the DELETE of cleanup_old_applications names
OldTerminal(r) ==
    /\ r.created_at < now - CLEANUP_DAYS * TicksPerDay
    /\ r.status \in {"published", "rejected"}
CleanupStep == out'.log \in {"log_cleanup_done", "log_cleanup_error"}

\* C15: a cleanup that runs deletes exactly the rows older than the given days
\* whose status is published or rejected (one that raises deletes nothing); a
\* pending or approved row survives every step; no other step removes a row.
C15_CleanupDeletesOnlyOldTerminal ==
    [][/\ out'.log = "log_cleanup_done" => apps' = {r \in apps : ~OldTerminal(r)}
       /\ out'.log = "log_cleanup_error" => apps' = apps
       /\ \A r \in apps : r.status \in {"pending", "approved"} =>
              \E q \in apps' : q.id = r.id
       /\ ~CleanupStep => \A r \in apps : \E q \in apps' : q.id = r.id]_vars

\* a cleanup deleted the old rejected or published row and left the pending
\* row of the same age
C15_Witness ==
    /\ out.log = "log_cleanup_done"
    /\ nextId = 3
    /\ Cardinality(apps) = 1
    /\ \E r \in apps : /\ r.status = "pending"
                       /\ r.created_at < now - CLEANUP_DAYS * TicksPerDay

\* the step serves an update of a conversation; the step is part of a view;
\* the columns status and published_at of row r are those of row q
ConversationStep == update'.user \in ConvUsers /\ admin' = admin
ViewStep ==
    \/ admin.pc = "view" /\ admin'.pc = "idle"
    \/ admin.pc = "idle" /\ admin'.pc = "view"
SameLifecycle(r, q) == q.status = r.status /\ q.published_at = r.published_at
\* the admin decision handler writes the status of r; the publish routine
\* marks r published after its send
DecisionWrite(r, q) ==
    /\ admin.pc = "idle"
    /\ admin'.pc = "edit"
    /\ admin'.id = r.id
    /\ q.status \in {"approved", "rejected"}
    /\ q.published_at = r.published_at
PublishWrite(r, q) ==
    /\ out'.channel # NoSend
    /\ out'.channel.id = r.id
    /\ q.status = "published"
    /\ q.published_at # NULL

\* C16: status and published_at of an existing row change only in the step in
\* which the admin decision handler writes the status and in the step in which
\* the publish routine marks the row; a step of a conversation (the rate-limit
\* check included), of a view and of the cleanup job leaves both columns of
\* every surviving row as they were.
C16_OnlyDecisionAndPublishWrite ==
    [][/\ \A r \in apps : \A q \in apps' :
              (q.id = r.id /\ ~SameLifecycle(r, q)) =>
                  (DecisionWrite(r, q) \/ PublishWrite(r, q))
       /\ (ConversationStep \/ ViewStep \/ CleanupStep) =>
              \A r \in apps : \A q \in apps' : q.id = r.id => SameLifecycle(r, q)]_vars

\* a conversation was completed, its rate-limit check done, while the table
\* held a published row
C16_Witness ==
    /\ update.user \in ConvUsers
    /\ out.reply = "created"
    /\ \E r \in apps : /\ r.status = "published"
                       /\ r.published_at # NULL
                       /\ r.limit_checked

\* ====================================================== claims, startup
\* C19: the process comes to serve, and an update is served, only with the
\* bot token, the channel id and the admin chat id all set.
C19_NoServingWithoutConfiguration ==
    [][(boot'.pc = "serving" \/ update' # NoUpdate) =>
          (boot'.token /\ boot'.channel /\ boot'.admin_chat)]_vars

\* ======================================================== claims, sweep
\* the sweep starts, and the sweep ends (normally or by its outer except)
SweepStarts == sweep.pc = "idle" /\ sweep'.pc = "loop"
SweepEnds == sweep.pc = "loop" /\ sweep'.pc = "idle"
\* the send of the row the sweep is publishing went through, or raised
SweepSendOk == sweep.pc = "sending" /\ sweep'.pc = "loop" /\ out'.channel # NoSend
SweepSendFails == sweep.pc = "sending" /\ sweep'.pc = "loop" /\ out'.channel = NoSend
Selected(sw) == {sw.rows[i].id : i \in 1..Len(sw.rows)}

\* the ids of a list of rows
IdsOf(rows) == {rows[i].id : i \in 1..Len(rows)}

\* C13: a row that mark_application_as_published has marked (published_at is
\* set) is not among the rows get_approved_unpublished_applications returns,
\* in this state and after any step, whatever its status has become; a sweep
\* that starts does not select it; and in database.py a row marked by
\* mark_as_published is not returned by get_approved_unpublished.
C13_PublishedNeverSelectedAgain ==
    [][/\ \A r \in apps : r.published_at # NULL =>
              /\ r.id \notin IdsOf(get_approved_unpublished_applications(TRUE))
              /\ \A q \in apps' : q.id = r.id => q.published_at # NULL
       /\ \A q \in apps' : q.published_at # NULL =>
              q.id \notin IdsOf(get_approved_unpublished_applications(TRUE)')
       /\ SweepStarts => \A i \in 1..Len(sweep'.rows) :
              RowOf(apps, sweep'.rows[i].id).published_at = NULL
       /\ \A r \in apps :
              r.id \notin IdsOf(get_approved_unpublished(mark_as_published(apps, r.id)))]_vars

\* a published row was approved again, and the sweep that started afterwards
\* selected nothing
C13_Witness ==
    /\ sweep.pc = "loop"
    /\ sweep.rows = <<>>
    /\ \E r \in apps : r.published_at # NULL /\ r.status = "approved"

\* C14: the rows a sweep gets from get_approved_unpublished_applications have
\* no publish_date after today.
C14_QueryExcludesFutureDates ==
    [][SweepStarts => \A i \in 1..Len(sweep'.rows) :
          \/ sweep'.rows[i].publish_date = NULL
          \/ sweep'.rows[i].publish_date <= today]_vars

\* C7: a sweep selects every eligible row, calls publish_to_channel for every
\* eligible row it selected before it ends, whatever other rows it selected,
\* and a row whose send succeeded is marked published.
C7_EveryEligibleRowAttempted ==
    [][/\ SweepStarts => \A r \in apps : Eligible(r) => r.id \in Selected(sweep')
       /\ SweepEnds => \A i \in 1..Len(sweep.rows) :
                           Eligible(sweep.rows[i]) => sweep.rows[i].id \in sweep.tried
       /\ SweepSendOk => \E r \in apps' : /\ r.id = sweep.snap.id
                                          /\ r.status = "published"
                                          /\ r.published_at # NULL]_vars

\* C8: a send that fails in a sweep leaves the row as it was; the next sweep
\* selects the row again if it is still approved and unpublished, and calls
\* publish_to_channel for it before it ends.
C8_FailedSendRetried ==
    [][/\ SweepSendFails => apps' = apps
       /\ SweepStarts => \A r \in apps :
              (r.id \in sweep.failed /\ r.status = "approved" /\ r.published_at = NULL)
                  => r.id \in sweep'.prev
       /\ SweepEnds => sweep.prev \subseteq sweep.tried]_vars

\* C33: an error raised while the sweep handles one row does not stop the
\* sweep: when the sweep ends, every eligible row it read after a row that
\* raised has been handed to publish_to_channel.
C33_ErrorDoesNotStopSweep ==
    [][SweepEnds =>
          \A i, j \in 1..Len(sweep.rows) :
              (/\ i < j
               /\ RowRaises(sweep.rows[i])
               /\ ~RowRaises(sweep.rows[j])
               /\ Eligible(sweep.rows[j]))
                 => sweep.rows[j].id \in sweep.tried]_vars

\* ========================================================= claims, names
\* the name a name prompt reads: the text of the message without the
\* whitespace around it
NameOf(upd) == strip(upd.data)
\* between 2 and 50 characters, each a letter, whitespace or a hyphen
WellFormedName(name) ==
    /\ len(name) >= 2
    /\ len(name) <= 50
    /\ \A i \in 1..Len(name) :
           \/ Lower(name[i].c) \in Letters
           \/ name[i].c \in {" ", "\n", "-"}
\* the step serves a text message of user u in the given name-input state
NamePrompt(u, state) ==
    /\ update'.user = u
    /\ update'.kind = "text"
    /\ conv[u] = state

TextPrompt(u, state) ==
    /\ update'.user = u
    /\ update'.kind = "text"
    /\ conv[u] = state
\* the handler refused the message: nothing stored, same state, no row
Refused(u, state) ==
    /\ user_data'[u] = user_data[u]
    /\ conv'[u] = state
    /\ apps' = apps

\* C22: a greeting text longer than MAX_CONGRAT_TEXT_LENGTH (500), an
\* announcement or news text longer than MAX_ANNOUNCE_NEWS_TEXT_LENGTH (300),
\* and any text shorter than 10 characters is refused: the text handler stores
\* nothing and stays in the same text-input state.
C22_TextOutsideLimitsRefused ==
    [][\A u \in ConvUsers :
          /\ (/\ TextPrompt(u, "CUSTOM_CONGRAT_MESSAGE_INPUT")
              /\ \/ len(strip(update'.data)) > MAX_CONGRAT_TEXT_LENGTH
                 \/ len(strip(update'.data)) < 10)
                => Refused(u, "CUSTOM_CONGRAT_MESSAGE_INPUT")
          /\ (/\ TextPrompt(u, "ANNOUNCE_TEXT_INPUT")
              /\ \/ len(strip(update'.data)) > MAX_ANNOUNCE_NEWS_TEXT_LENGTH
                 \/ len(strip(update'.data)) < 10)
                => Refused(u, "ANNOUNCE_TEXT_INPUT")]_vars

\* ================================================== claims, censor_text
\* the contact pattern matches somewhere in t
HasContact(t) == \E i \in 1..Len(t) : ContactAlts(t, i) # {}
\* censor_text has been called on user_data["text"] of user 1
Censored == out.reply \in {"has_bad", "no_bad"}

\* C23: for a text with no configured bad word in any letter case and no
\* contact pattern, censor_text returns the text unchanged together with False.
C23_CleanTextUnchanged ==
    (/\ Censored
     /\ ~HasBadWord(user_data[1].text)
     /\ ~HasContact(user_data[1].text)) =>
        /\ user_data[1].censored_text = user_data[1].text
        /\ out.reply = "no_bad"

\* the halves of a bad word with a space between them came back as they were
C23_Witness ==
    /\ Censored
    /\ user_data[1].text = Str(<<"s", "u", " ", "k", "a">>)
    /\ user_data[1].censored_text = user_data[1].text
    /\ out.reply = "no_bad"

\* the word w occurs in t, letter for letter, whatever the case
Occurs(w, t) ==
    \E i \in 1..Len(t) :
        /\ i + Len(w) - 1 <= Len(t)
        /\ \A k \in 1..Len(w) : t[i + k - 1].n = 1 /\ Lower(t[i + k - 1].c) = Lower(w[k])
\* t without its runs of three stars
RECURSIVE Unstarred(_)
Unstarred(t) ==
    IF t = <<>> THEN <<>>
    ELSE IF Len(t) >= 3 /\ SubSeq(t, 1, 3) = STARS THEN Unstarred(SubSeq(t, 4, Len(t)))
    ELSE <<Head(t)>> \o Unstarred(Tail(t))
\* the word w stands at the head of t, whatever the case
StartsWith(w, t) ==
    /\ Len(w) <= Len(t)
    /\ \A k \in 1..Len(w) : t[k].n = 1 /\ Lower(t[k].c) = Lower(w[k])
\* t with every occurrence of a word of ws cut out, leftmost first
RECURSIVE Without(_, _)
Without(ws, t) ==
    IF t = <<>> THEN <<>>
    ELSE IF \E k \in 1..Len(ws) : StartsWith(ws[k], t)
         THEN LET k == CHOOSE k \in 1..Len(ws) : StartsWith(ws[k], t)
              IN  Without(ws, SubSeq(t, Len(ws[k]) + 1, Len(t)))
         ELSE <<Head(t)>> \o Without(ws, Tail(t))

\* C24: for a text with a configured bad word in any letter case, censor_text
\* returns True and a text in which every occurrence of every configured bad
\* word is replaced by ***: the result holds no configured bad word, and (when
\* no contact pattern is involved) it is the text with stars where the words
\* were.
C24_BadWordsReplaced ==
    (Censored /\ HasBadWord(user_data[1].text)) =>
        /\ out.reply = "has_bad"
        /\ \A k \in 1..Len(DEFAULT_BAD_WORDS) :
               ~Occurs(DEFAULT_BAD_WORDS[k], user_data[1].censored_text)
        /\ re_search(<<"*", "*", "*">>, user_data[1].censored_text)
        /\ ~HasContact(user_data[1].text) =>
               Unstarred(user_data[1].censored_text)
                   = Without(DEFAULT_BAD_WORDS, user_data[1].text)

\* a text with the same bad word twice, in two cases, came back as stars
C24_Witness ==
    /\ Censored
    /\ user_data[1].text = Str(<<"s", "u", "k", "a", "S", "U", "k", "A">>)
    /\ user_data[1].censored_text = STARS \o STARS
    /\ out.reply = "has_bad"

\* C39: censor_text returns its flag True exactly when the text it returns
\* differs from the text it was given: every change it makes, a replaced bad
\* word or a hidden contact, is reported through the flag.
C39_FlagIffTextChanged ==
    Censored =>
        (out.reply = "has_bad" <=> user_data[1].censored_text # user_data[1].text)

\* ===================================================== claims, the photo
\* C25: a row with a photo_id is delivered to the channel as a photo whose
\* caption starts with the stored text; a row without one is delivered as a
\* plain text message that starts with the stored text.
C25_PhotoRowsSentAsPhoto ==
    [][out'.channel # NoSend =>
          \E r \in apps :
              /\ r.id = out'.channel.id
              /\ out'.channel.photo = r.photo_id
              /\ SubSeq(out'.channel.text, 1, Len(r.text)) = r.text]_vars

\* ================================================ claims, the phone step
DigitChars == {"0", "1", "2", "3", "4", "5", "6", "7", "8", "9"}
\* t without what is neither a digit nor the plus sign
PhoneDigits(t) == SelectSeq(t, LAMBDA e : e.n = 1 /\ e.c \in DigitChars \cup {"+"})
\* (+7|8) followed by 10 digits
PhoneMatches(t) ==
    LET d == PhoneDigits(t)
    IN  \/ /\ Len(d) = 12
           /\ d[1].c = "+" /\ d[2].c = "7"
           /\ \A i \in 3..12 : d[i].c \in DigitChars
        \/ /\ Len(d) = 11
           /\ d[1].c = "8"
           /\ \A i \in 2..11 : d[i].c \in DigitChars
\* the step serves the button of user u that chooses news or a kind of
\* announcement
ChoosesNewsOrSubtype(u) ==
    /\ update'.user = u
    /\ update'.kind = "callback"
    /\ \/ conv[u] = "TYPE_SELECTION" /\ update'.data = "news"
       \/ /\ conv[u] = "ANNOUNCE_SUBTYPE_SELECTION"
          /\ without_prefix(update'.data, "subtype_") \in ANNOUNCE_SUBTYPES

\* C26: the announcement and news flows have a phone step: choosing news or a
\* kind of announcement does not open the text entry yet, and the message that
\* follows the choice, when it is not (+7|8) and 10 digits once everything but
\* digits is stripped, fails validation and is not stored.
C26_PhoneStepValidates ==
    [][\A u \in ConvUsers :
          /\ ChoosesNewsOrSubtype(u) => conv'[u] # "ANNOUNCE_TEXT_INPUT"
          /\ (/\ TextPrompt(u, "ANNOUNCE_TEXT_INPUT")
              /\ user_data[u].text = <<>>
              /\ ~PhoneMatches(update'.data))
                => Refused(u, "ANNOUNCE_TEXT_INPUT")]_vars

\* ============================================= claims, duplicate delivery
\* C27: each application is sent to the channel at most once, however the
\* approve callbacks of the admin (repeated ones included) and the periodic
\* sweep interleave at their await points.
C27_SentAtMostOnce == channel.twice = {}

C29_RowCarriesLastText ==
    \A r \in apps :
        r.raw # <<>> => (r.text = r.raw \/ r.text = censor_text(r.raw)[1])

\* ============================================== claims, back to start
\* C30: in every conversation state, pressing a button with the callback data
\* back_to_start clears the collected user_data and puts the conversation in
\* the type-selection state.
C30_BackToStartFromEveryState ==
    [][\A u \in ConvUsers :
          (/\ update'.user = u
           /\ update'.kind = "callback"
           /\ update'.data = "back_to_start"
           /\ conv[u] \in States)
             => /\ user_data'[u] = NoData
                /\ conv'[u] = "TYPE_SELECTION"]_vars

\* ============================================ claims, after the end
\* the final messages of complete_request, each with the button "В начало"
FinalReplies == {"created", "error_save", "error_no_data"}

\* C31: after a conversation has ended with a final message that offers the
\* button (the submission completed or failed), pressing that button
\* (back_to_start) starts a new conversation at type selection.
C31_ButtonAfterEndRestarts ==
    [][\A u \in ConvUsers :
          (/\ conv[u] = END
           /\ out.reply \in FinalReplies
           /\ update'.user = u
           /\ update'.kind = "callback"
           /\ update'.data = "back_to_start")
             => conv'[u] = "TYPE_SELECTION"]_vars

\* the update of the step is /cancel of user u, sent while u's conversation runs
Cancels(u) ==
    /\ conv[u] \in States
    /\ update'.user = u
    /\ update'.kind = "command"
    /\ update'.data = "/cancel"

\* C32 as stated: after /cancel in any conversation state the collected data is
\* discarded, no application is persisted, and the conversation has ended.
C32_CancelEnds ==
    [][\A u \in ConvUsers :
          Cancels(u) => /\ user_data'[u] = NoData
                        /\ apps' = apps
                        /\ conv'[u] = END]_vars

\* C32, amended: after /cancel in any conversation state the collected data is
\* discarded, no application is persisted, and the conversation is back at
\* the type selection.
C32_CancelReturnsToMenu ==
    [][\A u \in ConvUsers :
          Cancels(u) => /\ user_data'[u] = NoData
                        /\ apps' = apps
                        /\ conv'[u] = "TYPE_SELECTION"
                        /\ out'.reply = "choose_type"]_vars

\* a /cancel has been handled: the user is shown the type selection again and
\* nothing was stored
C32_Witness ==
    /\ update.user \in ConvUsers
    /\ update.kind = "command"
    /\ update.data = "/cancel"
    /\ conv[update.user] = "TYPE_SELECTION"
    /\ user_data[update.user] = NoData
    /\ out.reply = "choose_type"
    /\ apps = {}

\* =================================================== claims, published_at
\* C34: in every reachable state a row's published_at is set if and only if
\* its status is 'published'.
C34_PublishedAtIffPublished ==
    \A r \in apps : (r.published_at # NULL) <=> (r.status = "published")

\* ====================================================== claims, holidays
\* today lies within 5 days before or after an occurrence of the holiday, in
\* this year, the year before or the year after
InWindow(h) ==
    \E y \in {current_year - DaysPerYear, current_year, current_year + DaysPerYear} :
        /\ y + HOLIDAYS[h] - 5 <= today
        /\ today <= y + HOLIDAYS[h] + 5
\* the step serves the button of holiday h at the holiday choice of user u
ChoosesHoliday(u, h) ==
    /\ conv[u] = "CONGRAT_HOLIDAY_CHOICE"
    /\ update'.user = u
    /\ update'.kind = "callback"
    /\ h \in DOMAIN HOLIDAYS
    /\ without_prefix(update'.data, "holiday_") = h

\* C35: a predefined holiday greeting is chosen exactly when today lies within
\* 5 days before or after the holiday's date, also across a year boundary
\* (late December for 1 January); outside that window the choice is refused
\* and the conversation stays at the holiday choice.
C35_HolidayChosenIffInWindow ==
    [][\A u \in ConvUsers, h \in DOMAIN HOLIDAYS :
          ChoosesHoliday(u, h) =>
              IF InWindow(h)
              THEN /\ user_data'[u].congrat_type = h
                   /\ conv'[u] \in {"CONGRAT_DATE_INPUT", "WAIT_CENSOR_APPROVAL"}
              ELSE /\ out'.reply = "error_holiday_inactive"
                   /\ conv'[u] = "CONGRAT_HOLIDAY_CHOICE"
                   /\ user_data'[u] = user_data[u]]_vars

\* ================================================== claims, publish_date
\* the day a row was submitted
SubmittedOn(r) == r.created_at \div TicksPerDay
\* the step serves a well-formed date before today, typed at the date input
TypesPastDate(u) ==
    /\ conv[u] = "CONGRAT_DATE_INPUT"
    /\ update'.user = u
    /\ update'.kind = "text"
    /\ update'.data.fmt = "dmy"
    /\ update'.data.day < today

\* C36: every stored application that has a publish_date has one that is not
\* earlier than the day it was submitted; a past date typed at the date input
\* is refused, stores nothing and leaves the conversation at the date input.
C36_PublishDateNotInPast ==
    [][/\ \A r \in apps' : r.publish_date # NULL => r.publish_date >= SubmittedOn(r)
       /\ \A u \in ConvUsers :
              TypesPastDate(u) => /\ conv'[u] = "CONGRAT_DATE_INPUT"
                                  /\ out'.reply = "error_past_date"
                                  /\ apps' = apps]_vars

\* a greeting dated tomorrow has been stored
C36_Witness ==
    \E r \in apps : r.publish_date # NULL /\ r.publish_date > SubmittedOn(r)

\* ================================================ claims, publish result
\* publish_to_channel has just returned True
ReturnedTrue == out.log = "log_published"

\* C37: publish_to_channel returns True only if the row has been marked
\* published: after a call that returned True the row it sent has the status
\* 'published' and a published_at.
C37_TrueOnlyIfMarked ==
    ReturnedTrue =>
        \E r \in apps : /\ r.id = out.channel.id
                        /\ r.status = "published"
                        /\ r.published_at # NULL

\* ======================================================= claims, webhook
\* the step serves a webhook request
WebhookStep == update' # NoUpdate /\ update'.kind = "webhook"
\* the request's token is missing or is not the configured secret
BadToken == update'.data[1] \in {NONE, ""} \/ update'.data[1] # boot.secret

\* C38: with a webhook secret configured, a request with a missing or wrong
\* token is answered 403 and its update is not put on the update queue; a
\* request that arrives before the application is initialized is answered 503
\* and is not put on the queue either.
C38_WebhookRefusals ==
    [][WebhookStep =>
          /\ (boot.secret # NONE /\ BadToken) =>
                 /\ out'.reply = "403"
                 /\ boot'.queue = boot.queue
          /\ (~(boot.secret # NONE /\ BadToken) /\ boot.pc # "serving") =>
                 /\ out'.reply = "503"
                 /\ boot'.queue = boot.queue]_vars

====
